---- MODULE Spec2Model ----
(***************************************************************************)
(* Model of the heuristic document-understanding pipeline of structa-ai    *)
(* (src/ai-workers/processors): layout reading order, the structuring      *)
(* engine, the table aligner and key-value extraction.                     *)
(*                                                                         *)
(* Conventions.  A Python str is a sequence of one-character strings, so   *)
(* <<"a", ":", " ", "1">> is "a: 1".  Python list indices are 0-based and  *)
(* kept 0-based wherever the program stores them (reading_order, order,    *)
(* row, col); TLA+ sequences themselves are 1-based.  A value whose Python *)
(* type varies (a parsed cell, a coerced value, a block's content, a       *)
(* title) is a record tagged by t: NoneVal, StrVal(s), IntVal(n),          *)
(* FloatVal(m, e), BoolVal(b), ListVal(items), MatrixVal(rows).  A Python  *)
(* exception that leaves a function is the record [raised |-> <type>].     *)
(***************************************************************************)
EXTENDS Integers, Sequences, FiniteSets, TLC

VARIABLES
    pc,             \* position of the request in the pipeline
    regions,        \* LayoutDetector: the detected regions (list of LayoutRegion)
    reading_order,  \* LayoutResult.reading_order
    ocr_blocks,     \* ocr_result["blocks"]: the recognised tokens
    full_text,      \* ocr_result["full_text"]
    table_result,   \* the table_result argument of structure(): None or [tables]
    document,       \* value returned (or exception raised) by structure()
    matrix,         \* table["matrix"], the argument of TableAligner.align()
    has_header,     \* the has_header argument of align()
    aligned,        \* the AlignedTable returned by align()
    values,         \* the argument of TableAligner._detect_type()
    detected_type,  \* the value returned by _detect_type()
    horizontal_lines, \* TableExtractor._detect_lines: bounding rects (x, y, w, h)
    vertical_lines,   \* of the horizontal and of the vertical rules
    offset,         \* the offset argument of _extract_heuristic()
    found_tables,   \* the list of Table returned by _extract_heuristic()
    input_text,     \* the text argument of ErrorCorrector.correct()
    correction,     \* the (corrected_text, corrections) returned by correct()
    recorrection,   \* what correct() returns for the corrected text
    issues,         \* the list returned by validate_numbers()
    max_size,       \* ImagePreprocessor.max_size
    image,          \* the image argument of a preprocessing step
    measured,       \* what cv2 measures on the image: foreground pixels, angle
    resized,        \* the value returned (or raised) by _resize_if_needed()
    deskewed,       \* the image returned by _deskew()
    redeskewed,     \* the image returned by _deskew() for the deskewed image
    corners,        \* the corners argument of _order_corners()
    ordered         \* the array returned by _order_corners()

\* The variables of the page pipeline, of the table extractor, of the error
\* corrector and of the image preprocessor.
pageVars == <<regions, reading_order, ocr_blocks, full_text, table_result, document,
              matrix, has_header, aligned, values, detected_type>>
extractorVars == <<horizontal_lines, vertical_lines, offset, found_tables>>
correctorVars == <<input_text, correction, recorrection, issues>>
preprocessorVars == <<max_size, image, measured, resized, deskewed, redeskewed,
                      corners, ordered>>
vars == <<pc, pageVars, extractorVars, correctorVars, preprocessorVars>>

NoneVal == [t |-> "none"]
StrVal(s) == [t |-> "str", v |-> s]
BoolVal(b) == [t |-> "bool", v |-> b]
ListVal(items) == [t |-> "list", v |-> items]
MatrixVal(rows) == [t |-> "matrix", v |-> rows]
\* bbox=None of a ContentBlock
NoBBox == <<>>

----------------------------------------------------------------------------
(* Generic helpers standing for Python built-ins.                          *)

\* Python's order on tuples of integers of one length: lexicographic.
TupleLess(a, b) ==
    \E k \in 1..Len(a) : a[k] < b[k] /\ \A m \in 1..(k - 1) : a[m] = b[m]

\* sorted(range(n), key=...) for the sequence of the items' keys (tuples of
\* integers): Python's sort is stable, so ties keep their input order.
StableSortIdx(keys) ==
    LET n == Len(keys)
        rank(i) == Cardinality({j \in 1..n :
                       TupleLess(keys[j], keys[i])
                           \/ (~TupleLess(keys[i], keys[j]) /\ j < i)}) + 1
    IN  [k \in 1..n |-> CHOOSE i \in 1..n : rank(i) = k]

\* All sequences over S of length 0..n.
SeqUpTo(S, n) == UNION {[1..k -> S] : k \in 0..n}

Max(a, b) == IF a >= b THEN a ELSE b
Min(a, b) == IF a <= b THEN a ELSE b
Abs(a) == IF a < 0 THEN -a ELSE a

----------------------------------------------------------------------------
(* Python str, as a sequence of characters.  A character is a            *)
(* one-character string; the non-ASCII characters the program names are   *)
(* the atoms "<pound>", "<euro>", "<yen>" and "<bullet>".                  *)

LowerLetters == <<"a", "b", "c", "d", "e", "f", "g", "h", "i", "j", "k", "l", "m",
                  "n", "o", "p", "q", "r", "s", "t", "u", "v", "w", "x", "y", "z">>
UpperLetters == <<"A", "B", "C", "D", "E", "F", "G", "H", "I", "J", "K", "L", "M",
                  "N", "O", "P", "Q", "R", "S", "T", "U", "V", "W", "X", "Y", "Z">>
DigitChars == <<"0", "1", "2", "3", "4", "5", "6", "7", "8", "9">>

Range(f) == {f[i] : i \in DOMAIN f}
Lowers == Range(LowerLetters)
Uppers == Range(UpperLetters)
Letters == Lowers \cup Uppers
Digits == Range(DigitChars)
\* \s
Spaces == {" ", "\t", "\n"}
\* \w
WordChars == Letters \cup Digits \cup {"_"}

DigitVal(c) == (CHOOSE i \in 1..10 : DigitChars[i] = c) - 1

\* str.lower() / str.upper() of one character.
LowerChar(c) ==
    IF c \in Uppers THEN LowerLetters[CHOOSE i \in 1..26 : UpperLetters[i] = c] ELSE c
Lower(s) == [i \in 1..Len(s) |-> LowerChar(s[i])]

\* The first position >= i of s that holds no character of S (Len(s)+1 if none):
\* where a greedy S* started at i stops.
SkipSet(s, i, S) ==
    CHOOSE j \in i..(Len(s) + 1) :
        /\ \A k \in i..(j - 1) : s[k] \in S
        /\ j = Len(s) + 1 \/ s[j] \notin S

\* s[i..j-1]
Slice(s, i, j) == IF j <= i THEN <<>> ELSE SubSeq(s, i, j - 1)

\* str.strip(), str.lstrip()
LStrip(s) == Slice(s, SkipSet(s, 1, Spaces), Len(s) + 1)
Strip(s) ==
    LET t == LStrip(s)
        e == IF \E k \in 1..Len(t) : t[k] \notin Spaces
             THEN CHOOSE k \in 1..Len(t) :
                      /\ t[k] \notin Spaces
                      /\ \A m \in (k + 1)..Len(t) : t[m] \in Spaces
             ELSE 0
    IN  Slice(t, 1, e + 1)

\* The characters of s that are not in S, in order: s with every character
\* of S deleted (str.replace(c, '') for each c of S, re.sub('[S]', '', s)).
Without(s, S) == SelectSeq(s, LAMBDA c : c \notin S)

\* sep.join(parts)
RECURSIVE Join(_, _)
Join(parts, sep) ==
    IF parts = <<>> THEN <<>>
    ELSE IF Len(parts) = 1 THEN parts[1]
    ELSE parts[1] \o sep \o Join(Tail(parts), sep)

\* s.split(c) for a one-character separator c.
RECURSIVE SplitOn(_, _)
SplitOn(s, c) ==
    IF \A k \in 1..Len(s) : s[k] /= c THEN <<s>>
    ELSE LET j == SkipSet(s, 1, Range(s) \ {c})
         IN  <<Slice(s, 1, j)>> \o SplitOn(Slice(s, j + 1, Len(s) + 1), c)

\* str.isupper(): at least one cased character and no lower-case one.
IsUpper(s) ==
    /\ \E k \in 1..Len(s) : s[k] \in Uppers
    /\ \A k \in 1..Len(s) : s[k] \notin Lowers

\* str(n) for an integer n >= 0.
RECURSIVE IntToStr(_)
IntToStr(n) ==
    IF n < 10 THEN <<DigitChars[n + 1]>>
    ELSE IntToStr(n \div 10) \o <<DigitChars[(n % 10) + 1]>>

(* Numbers.  An int is [t |-> "int", v |-> n].  A float is the exact       *)
(* decimal m / 10^e, [t |-> "float", m |-> m, e |-> e] with no trailing     *)
(* zero in the fraction, so 1200.00 and 1200.0 are one value; binary       *)
(* rounding is not modelled.  ValueError stands for the exception raised.  *)
ValueError == [raised |-> "ValueError"]

RECURSIVE FloatVal(_, _)
FloatVal(m, e) ==
    IF e > 0 /\ m % 10 = 0 THEN FloatVal(m \div 10, e - 1)
    ELSE [t |-> "float", m |-> m, e |-> e]
IntVal(n) == [t |-> "int", v |-> n]

\* The value of a string of decimal digits.
RECURSIVE DigitsVal(_)
DigitsVal(ds) ==
    IF ds = <<>> THEN 0
    ELSE 10 * DigitsVal(SubSeq(ds, 1, Len(ds) - 1)) + DigitVal(ds[Len(ds)])

\* A numeric literal without its optional sign, and the sign's factor.
Unsigned(s) == IF s /= <<>> /\ s[1] \in {"-", "+"} THEN Tail(s) ELSE s
SignOf(s) == IF s /= <<>> /\ s[1] = "-" THEN -1 ELSE 1

\* Digits with at most one decimal point and at least one digit.
IsDecimal(u) ==
    /\ \A k \in 1..Len(u) : u[k] \in Digits \cup {"."}
    /\ Cardinality({k \in 1..Len(u) : u[k] = "."}) <= 1
    /\ \E k \in 1..Len(u) : u[k] \in Digits

\* The number of characters after the decimal point.
FractionLen(u) ==
    IF \E k \in 1..Len(u) : u[k] = "." THEN Len(u) - (CHOOSE k \in 1..Len(u) : u[k] = ".")
    ELSE 0

\* float() of a string without surrounding whitespace.
FloatOfStripped(s) ==
    IF IsDecimal(Unsigned(s))
    THEN FloatVal(SignOf(s) * DigitsVal(Without(Unsigned(s), {"."})),
                  FractionLen(Unsigned(s)))
    ELSE ValueError

\* float(s): surrounding whitespace, an optional sign, digits with an
\* optional decimal point and at least one digit.  (The exponent, inf/nan and
\* digit-group underscore forms of float() are outside the character sets the
\* inputs are drawn from.)
PyFloat(str) == FloatOfStripped(Strip(str))

\* int() of a string without surrounding whitespace.
IntOfStripped(s) ==
    IF Unsigned(s) /= <<>> /\ \A k \in 1..Len(Unsigned(s)) : Unsigned(s)[k] \in Digits
    THEN IntVal(SignOf(s) * DigitsVal(Unsigned(s)))
    ELSE ValueError

\* int(s): surrounding whitespace, an optional sign, at least one digit.
PyInt(str) == IntOfStripped(Strip(str))

Raised(v) == v = ValueError

----------------------------------------------------------------------------
(* LayoutDetector (layout.py).  A LayoutRegion is [type, bbox, order] with *)
(* bbox = <<x, y, width, height>>; its confidence plays no part in the     *)
(* reading order or in the blocks' order and is left out.                  *)

\* layout.py:223-226, the y_overlap test of a region against the last
\* region added to the current row.
YOverlap(region, last_region) ==
    /\ region.bbox[2] < last_region.bbox[2] + last_region.bbox[4]
    /\ last_region.bbox[2] < region.bbox[2] + region.bbox[4]

\* layout.py:215, sorted(indexed_regions, key=lambda x: x[1].bbox[1]):
\* the (1-based) indices of regs by top y, stable.
SortedByY(regs) ==
    StableSortIdx([i \in 1..Len(regs) |-> <<regs[i].bbox[2]>>])

\* GroupRows without the flush of the last row (layout.py:234-235 left out).
RECURSIVE GroupRowsNoFlush(_, _, _, _, _)
GroupRowsNoFlush(regs, sorted_by_y, k, rows, current_row) ==
    IF k > Len(sorted_by_y)
    THEN rows
    ELSE LET idx == sorted_by_y[k]
         IN  IF current_row = <<>>
             THEN GroupRowsNoFlush(regs, sorted_by_y, k + 1, rows, <<idx>>)
             ELSE IF /\ regs[idx].bbox[2] < regs[current_row[Len(current_row)]].bbox[2]
                                             + regs[current_row[Len(current_row)]].bbox[4]
                     /\ regs[current_row[Len(current_row)]].bbox[2]
                            < regs[idx].bbox[2] + regs[idx].bbox[4]
                  THEN GroupRowsNoFlush(regs, sorted_by_y, k + 1, rows,
                                        Append(current_row, idx))
                  ELSE GroupRowsNoFlush(regs, sorted_by_y, k + 1,
                                        Append(rows, current_row), <<idx>>)

\* layout.py:217-235, the loop that groups the y-sorted regions into rows.
\* rows and current_row hold indices into regs.
RECURSIVE GroupRows(_, _, _, _, _)
GroupRows(regs, sorted_by_y, k, rows, current_row) ==
    IF k > Len(sorted_by_y)
    THEN IF current_row /= <<>> THEN Append(rows, current_row) ELSE rows
    ELSE LET idx == sorted_by_y[k]
         IN  IF current_row = <<>>
             THEN GroupRows(regs, sorted_by_y, k + 1, rows, <<idx>>)
             ELSE IF YOverlap(regs[idx], regs[current_row[Len(current_row)]])
                  THEN GroupRows(regs, sorted_by_y, k + 1, rows, Append(current_row, idx))
                  ELSE GroupRows(regs, sorted_by_y, k + 1,
                                 Append(rows, current_row), <<idx>>)

\* layout.py:240, sorted(row, key=lambda x: x[1].bbox[0]).
SortedRow(regs, row) ==
    LET p == StableSortIdx([i \in 1..Len(row) |-> <<regs[row[i]].bbox[1]>>])
    IN  [k \in 1..Len(row) |-> row[p[k]]]

RECURSIVE ExtendRows(_, _, _)
ExtendRows(regs, rows, k) ==
    IF k > Len(rows) THEN <<>>
    ELSE SortedRow(regs, rows[k]) \o ExtendRows(regs, rows, k + 1)

\* The rows of the reading order (indices into regs, 1-based).
ReadingRows(regs) == GroupRows(regs, SortedByY(regs), 1, <<>>, <<>>)

\* LayoutDetector._determine_reading_order: the list of 0-based region indices.
DetermineReadingOrder(regs) ==
    IF regs = <<>> THEN <<>>
    ELSE LET flat == ExtendRows(regs, ReadingRows(regs), 1)
         IN  [k \in 1..Len(flat) |-> flat[k] - 1]

\* layout.py:101-102: regions[region_idx].order = idx for every entry of the
\* reading order; a region the reading order does not name keeps its order.
UpdateRegionOrder(regs, order) ==
    [i \in 1..Len(regs) |->
        IF \E k \in 1..Len(order) : order[k] = i - 1
        THEN [regs[i] EXCEPT !.order =
                 (CHOOSE k \in 1..Len(order) :
                     /\ order[k] = i - 1
                     /\ \A m \in (k + 1)..Len(order) : order[m] /= i - 1) - 1]
        ELSE regs[i]]

----------------------------------------------------------------------------
(* DataStructurer (structuring.py).  A token (OCR block) is [text, bbox];  *)
(* a ContentBlock is [type, content, bbox, order]; confidences and the     *)
(* page number (always 1) are left out.                                    *)

\* structuring.py:269, the line-clustering threshold in pixels.
LineThreshold == 20
\* structuring.py:313, the length below which an upper-case line is a heading.
HeadingMaxLen == 50

\* [A-Za-z\s], the label characters of the three key-value patterns.
LabelChars == Letters \cup Spaces
\* [\-\*\•\◦\▪\d+\.], the list-marker class of structuring.py:244 and :309.
MarkerChars == {"-", "*", "<bullet>", "<wbullet>", "<square>", "+", "."} \cup Digits

NoMatch == [ok |-> FALSE]

\* The tail "\s*(.+)$" of patterns 1 and 2, and "(.+)$" after the greedy
\* whitespace of pattern 3, matched against s from position i: the value group.
\* '.' matches no newline.  s is stripped by both callers, so the greedy \s*
\* never has to give a character back.
ValueGroup(s, i) ==
    LET v == SkipSet(s, i, Spaces)
    IN  IF v <= Len(s) /\ \A k \in v..Len(s) : s[k] /= "\n"
        THEN [ok |-> TRUE, value |-> Slice(s, v, Len(s) + 1)]
        ELSE NoMatch

\* re.match(key_value_patterns[0], s): ^([A-Za-z\s]+):\s*(.+)$
MatchColon(s) ==
    LET r == SkipSet(s, 1, LabelChars)
    IN  IF r > 1 /\ r <= Len(s) /\ s[r] = ":" /\ ValueGroup(s, r + 1).ok
        THEN [ok |-> TRUE, label |-> Slice(s, 1, r), value |-> ValueGroup(s, r + 1).value]
        ELSE NoMatch

\* re.match(key_value_patterns[1], s): ^([A-Za-z\s]+)\s*-\s*(.+)$
MatchDash(s) ==
    LET r == SkipSet(s, 1, LabelChars)
    IN  IF r > 1 /\ r <= Len(s) /\ s[r] = "-" /\ ValueGroup(s, r + 1).ok
        THEN [ok |-> TRUE, label |-> Slice(s, 1, r), value |-> ValueGroup(s, r + 1).value]
        ELSE NoMatch

\* re.match(key_value_patterns[2], s): ^([A-Za-z\s]+)\s{2,}(.+)$
\* The greedy label backtracks to the longest prefix that two whitespace
\* characters and a value follow.
MatchSpaces(s) ==
    LET r == SkipSet(s, 1, LabelChars)
        ks == {k \in 1..(r - 1) :
                  /\ k + 2 <= Len(s)
                  /\ s[k + 1] \in Spaces /\ s[k + 2] \in Spaces
                  /\ ValueGroup(s, k + 1).ok}
    IN  IF ks /= {}
        THEN LET k == CHOOSE k \in ks : \A m \in ks : m <= k
             IN  [ok |-> TRUE, label |-> Slice(s, 1, k + 1),
                  value |-> ValueGroup(s, k + 1).value]
        ELSE NoMatch

\* self.key_value_patterns (structuring.py:79-83), in list order.
KeyValueMatches(s) == <<MatchColon(s), MatchDash(s), MatchSpaces(s)>>

\* The first pattern, in list order, that matches s (0 if none).
FirstPattern(s) ==
    LET m == KeyValueMatches(s)
    IN  IF \E i \in 1..3 : m[i].ok
        THEN CHOOSE i \in 1..3 : m[i].ok /\ \A j \in 1..(i - 1) : ~m[j].ok
        ELSE 0

\* _parse_value comparing the value itself, not value.lower(), with the
\* boolean words.
CoerceValueCaseSensitive(value) ==
    LET clean == Without(value, {",", "$", "<euro>", "<pound>"})
        num == IF \E k \in 1..Len(clean) : clean[k] = "."
               THEN PyFloat(clean) ELSE PyInt(clean)
    IN  IF value \in {<<"y", "e", "s">>, <<"t", "r", "u", "e">>, <<"y">>}
        THEN BoolVal(TRUE)
        ELSE IF value \in {<<"n", "o">>, <<"f", "a", "l", "s", "e">>, <<"n">>}
        THEN BoolVal(FALSE)
        ELSE IF ~Raised(num) THEN num
        ELSE StrVal(value)

\* DataStructurer._parse_value
CoerceValue(value) ==
    LET low == Lower(value)
        clean == Without(value, {",", "$", "<euro>", "<pound>"})
        num == IF \E k \in 1..Len(clean) : clean[k] = "."
               THEN PyFloat(clean) ELSE PyInt(clean)
    IN  IF low \in {<<"y", "e", "s">>, <<"t", "r", "u", "e">>, <<"y">>}
        THEN BoolVal(TRUE)
        ELSE IF low \in {<<"n", "o">>, <<"f", "a", "l", "s", "e">>, <<"n">>}
        THEN BoolVal(FALSE)
        ELSE IF ~Raised(num) THEN num
        ELSE StrVal(value)

\* structuring.py:331, the key of a matched label.
KeyOf(label) ==
    LET t == Lower(Strip(label))
    IN  [i \in 1..Len(t) |-> IF t[i] = " " THEN "_" ELSE t[i]]

\* dict[key] = value
DictPut(d, key, value) ==
    [k \in DOMAIN d \cup {key} |-> IF k = key THEN value ELSE d[k]]
EmptyDict == [k \in {} |-> NoneVal]

\* The loop body without the break of structuring.py:337: a later pattern
\* that matches overwrites the entry of an earlier one.
KeyValuesOfLineNoBreak(key_values, raw_line) ==
    LET line == Strip(raw_line)
        m == KeyValueMatches(line)
        put(d, i) == IF m[i].ok
                     THEN [k \in DOMAIN d \cup {KeyOf(m[i].label)} |->
                              IF k = KeyOf(m[i].label) THEN CoerceValue(Strip(m[i].value))
                              ELSE d[k]]
                     ELSE d
    IN  put(put(put(key_values, 1), 2), 3)

\* structuring.py:325-337, the body of the loop for one line.
KeyValuesOfLine(key_values, raw_line) ==
    LET line == Strip(raw_line)
        i == FirstPattern(line)
    IN  IF i = 0 THEN key_values
        ELSE LET m == KeyValueMatches(line)[i]
             IN  DictPut(key_values, KeyOf(m.label), CoerceValue(Strip(m.value)))

RECURSIVE KeyValuesOfLines(_, _)
KeyValuesOfLines(key_values, lines) ==
    IF lines = <<>> THEN key_values
    ELSE KeyValuesOfLines(KeyValuesOfLine(key_values, lines[1]), Tail(lines))

\* DataStructurer._extract_key_values
ExtractKeyValues(text) == KeyValuesOfLines(EmptyDict, SplitOn(text, "\n"))

\* DataStructurer._classify_text
ClassifyText(str) ==
    LET text == Strip(str)
    IN  IF FirstPattern(text) /= 0 THEN "key_value"
        ELSE IF Len(text) >= 2 /\ text[1] \in MarkerChars /\ text[2] \in Spaces
        THEN "list_item"
        ELSE IF IsUpper(text) /\ Len(text) < HeadingMaxLen THEN "heading"
        ELSE "paragraph"

\* DataStructurer._map_region_type
MapRegionType(region_type) ==
    CASE region_type \in {"text", "paragraph"} -> "paragraph"
      [] region_type = "title" -> "title"
      [] region_type = "list" -> "list"
      [] region_type = "table" -> "table"
      [] region_type = "figure" -> "figure"
      [] region_type \in {"header", "footer"} -> "metadata"
      [] OTHER -> "text"

\* structuring.py:200-204: the token's centre lies in the region (the centre
\* bx + bw/2 is compared doubled, to stay in the integers).
CenterInRegion(block, region_bbox) ==
    LET rx == region_bbox[1]
        ry == region_bbox[2]
        rw == region_bbox[3]
        rh == region_bbox[4]
        cx2 == 2 * block.bbox[1] + block.bbox[3]
        cy2 == 2 * block.bbox[2] + block.bbox[4]
    IN  /\ 2 * rx <= cx2 /\ cx2 <= 2 * (rx + rw)
        /\ 2 * ry <= cy2 /\ cy2 <= 2 * (ry + rh)

\* DataStructurer._get_text_in_region
GetTextInRegion(blocks, region_bbox) ==
    LET inside == SelectSeq(blocks, LAMBDA b : CenterInRegion(b, region_bbox))
    IN  Join([i \in 1..Len(inside) |-> inside[i].text], <<" ">>)

\* _find_table_for_region accepting an overlap of exactly half the table.
RECURSIVE FirstTableFromHalf(_, _, _)
FirstTableFromHalf(tables, region_bbox, k) ==
    IF k > Len(tables) THEN 0
    ELSE LET t == tables[k].bbox
             overlap_x == Max(0, Min(region_bbox[1] + region_bbox[3], t[1] + t[3])
                                 - Max(region_bbox[1], t[1]))
             overlap_y == Max(0, Min(region_bbox[2] + region_bbox[4], t[2] + t[4])
                                 - Max(region_bbox[2], t[2]))
             table_area == t[3] * t[4]
         IN  IF table_area > 0 /\ 2 * (overlap_x * overlap_y) >= table_area
             THEN k
             ELSE FirstTableFromHalf(tables, region_bbox, k + 1)

\* DataStructurer._find_table_for_region: the 1-based position in tables of the
\* table returned, 0 for None.
RECURSIVE FirstTable(_, _, _)
FirstTable(tables, region_bbox, k) ==
    IF k > Len(tables) THEN 0
    ELSE LET t == tables[k].bbox
             overlap_x == Max(0, Min(region_bbox[1] + region_bbox[3], t[1] + t[3])
                                 - Max(region_bbox[1], t[1]))
             overlap_y == Max(0, Min(region_bbox[2] + region_bbox[4], t[2] + t[4])
                                 - Max(region_bbox[2], t[2]))
             table_area == t[3] * t[4]
         IN  IF table_area > 0 /\ 2 * (overlap_x * overlap_y) > table_area
             THEN k
             ELSE FirstTable(tables, region_bbox, k + 1)
FindTableForRegion(tables_in, region_bbox) == FirstTable(tables_in.tables, region_bbox, 1)

\* table_result=None, and a table_result dict with its "tables" list.  A dict
\* with the key "tables" is truthy even when the list is empty.
NoTableResult == [given |-> FALSE, tables |-> <<>>]
TableResult(tables) == [given |-> TRUE, tables |-> tables]

\* re.sub(r'^[\-\*\•\◦\▪\d+\.]\s*', '', line): one marker character and the
\* whitespace after it.
StripMarker(line) ==
    IF Len(line) >= 1 /\ line[1] \in MarkerChars
    THEN Slice(line, SkipSet(line, 2, Spaces), Len(line) + 1)
    ELSE line

\* DataStructurer._parse_list
ParseList(text) ==
    LET lines == SplitOn(text, "\n")
        cleaned == [i \in 1..Len(lines) |-> StripMarker(Strip(lines[i]))]
        items == SelectSeq(cleaned, LAMBDA c : c /= <<>>)
    IN  IF items /= <<>> THEN items ELSE <<text>>

\* structuring.py:255, sorted(ocr_blocks, key=(y, x)): the sorted tokens.
SortedBlocks(blocks) ==
    LET p == StableSortIdx([i \in 1..Len(blocks) |->
                                <<blocks[i].bbox[2], blocks[i].bbox[1]>>])
    IN  [k \in 1..Len(blocks) |-> blocks[p[k]]]

\* structuring.py:271-279 and :288-295, the ContentBlock of a finished line.
LineBlock(current_line_text, line_blocks) ==
    LET text == Join(current_line_text, <<" ">>)
    IN  [type |-> ClassifyText(text), content |-> StrVal(text), bbox |-> NoBBox,
         order |-> Len(line_blocks)]

\* structuring.py:261-297, the loop of _blocks_from_ocr over the sorted tokens
\* and the flush of the last line.  Closing a line inside the loop evaluates
\* b.get("confidence", 0.5) for the strings b of current_line_text (line 277),
\* which raises AttributeError.  The result is [raised, blocks].
RECURSIVE LineLoop(_, _, _, _, _)
LineLoop(sorted_blocks, k, current_line_y, current_line_text, line_blocks) ==
    IF k > Len(sorted_blocks)
    THEN IF current_line_text /= <<>>
         THEN [raised |-> "", blocks |->
                  Append(line_blocks, LineBlock(current_line_text, line_blocks))]
         ELSE [raised |-> "", blocks |-> line_blocks]
    ELSE LET y == sorted_blocks[k].bbox[2]
             line_y == IF current_line_y < 0 THEN y ELSE current_line_y
         IN  IF Abs(y - line_y) > LineThreshold
             THEN IF current_line_text /= <<>>
                  THEN [raised |-> "AttributeError", blocks |-> <<>>]
                  ELSE LineLoop(sorted_blocks, k + 1, y, <<sorted_blocks[k].text>>,
                                line_blocks)
             ELSE LineLoop(sorted_blocks, k + 1, line_y,
                           Append(current_line_text, sorted_blocks[k].text), line_blocks)

\* DataStructurer._blocks_from_ocr
BlocksFromOcr(blocks) == LineLoop(SortedBlocks(blocks), 1, -1, <<>>, <<>>)

\* structuring.py:109-138, the block built from regions[idx] (idx 0-based).
RegionBlock(layout_regions, idx, blocks, tables_in) ==
    LET region == layout_regions[idx + 1]
        region_text == GetTextInRegion(blocks, region.bbox)
        block_type == MapRegionType(region.type)
        table_data == FindTableForRegion(tables_in, region.bbox)
        content == IF block_type = "table" /\ tables_in.given
                   THEN IF table_data /= 0
                        THEN MatrixVal(tables_in.tables[table_data].matrix)
                        ELSE StrVal(region_text)
                   ELSE IF block_type = "list" THEN ListVal(ParseList(region_text))
                   ELSE StrVal(region_text)
    IN  [type |-> block_type, content |-> content, bbox |-> region.bbox, order |-> idx]

\* structuring.py:109, "for idx, region in enumerate(regions)".
RegionBlocks(layout_regions, blocks, tables_in) ==
    [k \in 1..Len(layout_regions) |-> RegionBlock(layout_regions, k - 1, blocks, tables_in)]

\* DataStructurer._extract_title; a content that is no str is returned as
\* str(content), written [t |-> "repr", v |-> content].
TitleContent(block) ==
    IF block.content.t = "str" THEN block.content
    ELSE [t |-> "repr", v |-> block.content]
\* The content of the last title block, else of the last heading block.
ExtractLastTitle(blocks) ==
    IF \E k \in 1..Len(blocks) : blocks[k].type = "title"
    THEN TitleContent(blocks[CHOOSE k \in 1..Len(blocks) :
             /\ blocks[k].type = "title"
             /\ \A m \in (k + 1)..Len(blocks) : blocks[m].type /= "title"])
    ELSE IF \E k \in 1..Len(blocks) : blocks[k].type = "heading"
    THEN TitleContent(blocks[CHOOSE k \in 1..Len(blocks) :
             /\ blocks[k].type = "heading"
             /\ \A m \in (k + 1)..Len(blocks) : blocks[m].type /= "heading"])
    ELSE NoneVal
ExtractTitle(blocks) ==
    IF \E k \in 1..Len(blocks) : blocks[k].type = "title"
    THEN TitleContent(blocks[CHOOSE k \in 1..Len(blocks) :
             /\ blocks[k].type = "title"
             /\ \A m \in 1..(k - 1) : blocks[m].type /= "title"])
    ELSE IF \E k \in 1..Len(blocks) : blocks[k].type = "heading"
    THEN TitleContent(blocks[CHOOSE k \in 1..Len(blocks) :
             /\ blocks[k].type = "heading"
             /\ \A m \in 1..(k - 1) : blocks[m].type /= "heading"])
    ELSE NoneVal

\* DataStructurer._build_metadata: the three counts.  (The confidence, the
\* languages, the page size and the dates and currency values scraped from the
\* text are copied or searched from the inputs and read by nothing else.)
BuildMetadataTableRegions(layout_regions, tables_in, key_values) ==
    [num_regions |-> Len(layout_regions),
     num_tables |-> Cardinality({k \in 1..Len(layout_regions) :
                                    layout_regions[k].type = "table"}),
     num_key_values |-> Cardinality(DOMAIN key_values)]
BuildMetadata(layout_regions, tables_in, key_values) ==
    [num_regions |-> Len(layout_regions),
     num_tables |-> IF tables_in.given THEN Len(tables_in.tables) ELSE 0,
     num_key_values |-> Cardinality(DOMAIN key_values)]

\* DataStructurer.structure
StructureDocument(blocks_in, text, layout_regions, tables_in) ==
    LET region_blocks == RegionBlocks(layout_regions, blocks_in, tables_in)
        from_ocr == IF region_blocks = <<>> /\ blocks_in /= <<>>
                    THEN BlocksFromOcr(blocks_in)
                    ELSE [raised |-> "", blocks |-> region_blocks]
        key_values == ExtractKeyValues(text)
    IN  IF from_ocr.raised /= ""
        THEN [raised |-> from_ocr.raised]
        ELSE [raised |-> "",
              title |-> ExtractTitle(from_ocr.blocks),
              blocks |-> from_ocr.blocks,
              metadata |-> BuildMetadata(layout_regions, tables_in, key_values),
              tables |-> tables_in.tables,
              key_values |-> key_values,
              raw_text |-> text]

----------------------------------------------------------------------------
(* The spatial text organizer (ocr.py): TesseractOCR._organize_text and    *)
(* EasyOCREngine._organize_text are the same code.  A TextBlock is         *)
(* [text, bbox].                                                           *)

\* ocr.py:119 and :206, line_height_threshold
LineHeightThreshold == 20

\* ocr.py:114, sorted(blocks, key=lambda b: (b.bbox[1], b.bbox[0]))
SortedByYX(blocks) ==
    LET p == StableSortIdx([i \in 1..Len(blocks) |->
                                <<blocks[i].bbox[2], blocks[i].bbox[1]>>])
    IN  [k \in 1..Len(blocks) |-> blocks[p[k]]]

\* lines.append(current_line) under "if current_line:"
AppendLine(lines, current_line) ==
    IF current_line /= <<>> THEN Append(lines, current_line) ELSE lines

\* The loop with current_y following every token that joins the line.
RECURSIVE OrganizeLoopMovingY(_, _, _, _, _)
OrganizeLoopMovingY(sorted_blocks, k, current_y, current_line, lines) ==
    IF k > Len(sorted_blocks) THEN AppendLine(lines, current_line)
    ELSE IF Abs(sorted_blocks[k].bbox[2] - current_y) > LineHeightThreshold
    THEN OrganizeLoopMovingY(sorted_blocks, k + 1, sorted_blocks[k].bbox[2],
                             <<sorted_blocks[k]>>, AppendLine(lines, current_line))
    ELSE OrganizeLoopMovingY(sorted_blocks, k + 1, sorted_blocks[k].bbox[2],
                             Append(current_line, sorted_blocks[k]), lines)

\* ocr.py:121-131, the loop over the sorted blocks and the flush of the last
\* line: the lines, each the list of its blocks.
RECURSIVE OrganizeLoop(_, _, _, _, _)
OrganizeLoop(sorted_blocks, k, current_y, current_line, lines) ==
    IF k > Len(sorted_blocks) THEN AppendLine(lines, current_line)
    ELSE IF Abs(sorted_blocks[k].bbox[2] - current_y) > LineHeightThreshold
    THEN OrganizeLoop(sorted_blocks, k + 1, sorted_blocks[k].bbox[2],
                      <<sorted_blocks[k]>>, AppendLine(lines, current_line))
    ELSE OrganizeLoop(sorted_blocks, k + 1, current_y,
                      Append(current_line, sorted_blocks[k]), lines)

\* ocr.py:116-131 for the sorted blocks: current_y starts at the first one's y.
LinesOfSorted(sorted_blocks) ==
    OrganizeLoop(sorted_blocks, 1, sorted_blocks[1].bbox[2], <<>>, <<>>)

\* The lines of a non-empty block list.
OrganizeLines(blocks) == LinesOfSorted(SortedByYX(blocks))

\* ocr.py:136-137: sorted(line, key=lambda b: b.bbox[0]) and the join of
\* its texts.
SortedLine(line) ==
    LET p == StableSortIdx([i \in 1..Len(line) |-> <<line[i].bbox[1]>>])
    IN  [k \in 1..Len(line) |-> line[p[k]]]
TextOfBlocks(line) == Join([i \in 1..Len(line) |-> line[i].text], <<" ">>)
LineText(line) == TextOfBlocks(SortedLine(line))

\* ocr.py:134-139, the text lines joined by newlines.
JoinLines(lines) == Join([i \in 1..Len(lines) |-> LineText(lines[i])], <<"\n">>)

\* _organize_text
OrganizeText(blocks) ==
    IF blocks = <<>> THEN <<>> ELSE JoinLines(OrganizeLines(blocks))

----------------------------------------------------------------------------
(* TableExtractor, the heuristic engine (tables.py).  A line is the        *)
(* bounding rect <<x, y, w, h>> of a contour; a TableCell is [row, col,     *)
(* row_span, col_span, text, bbox, is_header] and a Table [bbox, cells,     *)
(* num_rows, num_cols, has_header]; the constant confidences are left out.  *)

\* sorted(set(...)) of a set of integers.
SortedSet(S) ==
    [k \in 1..Cardinality(S) |->
        CHOOSE x \in S : Cardinality({y \in S : y < x}) = k - 1]

\* sorted(...) of a list of integers.
SortedList(xs) ==
    LET p == StableSortIdx([i \in 1..Len(xs) |-> <<xs[i]>>])
    IN  [k \in 1..Len(xs) |-> xs[p[k]]]

\* tables.py:304-316, the cell of row_idx and col_idx (0-based) between
\* consecutive positions.
CellAt(h_positions, v_positions, row_idx, col_idx) ==
    [row |-> row_idx,
     col |-> col_idx,
     row_span |-> 1,
     col_span |-> 1,
     text |-> <<>>,
     bbox |-> <<v_positions[col_idx + 1],
                h_positions[row_idx + 1],
                v_positions[col_idx + 2] - v_positions[col_idx + 1],
                h_positions[row_idx + 2] - h_positions[row_idx + 1]>>,
     is_header |-> (row_idx = 0)]

\* tables.py:299-318: no cell with fewer than two positions on an axis, else
\* the cells row by row.
CellsOfPositions(h_positions, v_positions) ==
    IF Len(h_positions) < 2 \/ Len(v_positions) < 2 THEN <<>>
    ELSE [n \in 1..((Len(h_positions) - 1) * (Len(v_positions) - 1)) |->
             CellAt(h_positions, v_positions,
                    (n - 1) \div (Len(v_positions) - 1),
                    (n - 1) % (Len(v_positions) - 1))]

\* The cells with the positions of all lines, equal ones included.
FindCellsOfAllLines(h_lines, v_lines) ==
    CellsOfPositions(SortedList([i \in 1..Len(h_lines) |-> h_lines[i][2]]),
                     SortedList([i \in 1..Len(v_lines) |-> v_lines[i][1]]))

\* TableExtractor._find_cells
FindCells(h_lines, v_lines) ==
    CellsOfPositions(SortedSet({h_lines[i][2] : i \in 1..Len(h_lines)}),
                     SortedSet({v_lines[i][1] : i \in 1..Len(v_lines)}))

SetMax(S) == CHOOSE x \in S : \A y \in S : y <= x
SetMin(S) == CHOOSE x \in S : \A y \in S : x <= y

\* tables.py:238-258, the Table around the cells.
TableOfCells(cells, table_offset) ==
    LET x_coords == {cells[i].bbox[1] : i \in 1..Len(cells)}
        y_coords == {cells[i].bbox[2] : i \in 1..Len(cells)}
        widths == {cells[i].bbox[1] + cells[i].bbox[3] : i \in 1..Len(cells)}
        heights == {cells[i].bbox[2] + cells[i].bbox[4] : i \in 1..Len(cells)}
    IN  [bbox |-> <<SetMin(x_coords) + table_offset[1],
                    SetMin(y_coords) + table_offset[2],
                    SetMax(widths) - SetMin(x_coords),
                    SetMax(heights) - SetMin(y_coords)>>,
         cells |-> cells,
         num_rows |-> SetMax({cells[i].row : i \in 1..Len(cells)}) + 1,
         num_cols |-> SetMax({cells[i].col : i \in 1..Len(cells)}) + 1,
         has_header |-> TRUE]

\* tables.py:225-236: each cell takes the text read from its part of the
\* image (it stays empty when pytesseract is missing or the part is empty).
WithTexts(cells, texts) ==
    [i \in 1..Len(cells) |-> [cells[i] EXCEPT !.text = texts[i]]]

\* TableExtractor._extract_heuristic after _detect_lines, for the texts read
\* from the cells.
ExtractHeuristic(h_lines, v_lines, table_offset, texts) ==
    IF h_lines = <<>> \/ v_lines = <<>> THEN <<>>
    ELSE IF FindCells(h_lines, v_lines) = <<>> THEN <<>>
    ELSE <<TableOfCells(WithTexts(FindCells(h_lines, v_lines), texts), table_offset)>>

----------------------------------------------------------------------------
(* TableAligner (table_alignment.py).  A matrix is a list of rows, a row a *)
(* list of cell strings.                                                   *)

\* [\$£€¥]
CurrencySymbols == {"$", "<pound>", "<euro>", "<yen>"}

\* currency_pattern: ^[\$£€¥]?\s*-?[\d,]+\.?\d*$
CurrencyPattern(s) ==
    LET a == IF Len(s) >= 1 /\ s[1] \in CurrencySymbols THEN 2 ELSE 1
        b == SkipSet(s, a, Spaces)
        c == IF b <= Len(s) /\ s[b] = "-" THEN b + 1 ELSE b
        d == SkipSet(s, c, Digits \cup {","})
        e == IF d <= Len(s) /\ s[d] = "." THEN d + 1 ELSE d
        f == SkipSet(s, e, Digits)
    IN  d > c /\ f = Len(s) + 1

\* percentage_pattern: ^-?[\d\.]+\s*%$
PercentagePattern(s) ==
    LET a == IF Len(s) >= 1 /\ s[1] = "-" THEN 2 ELSE 1
        b == SkipSet(s, a, Digits \cup {"."})
        c == SkipSet(s, b, Spaces)
    IN  b > a /\ c = Len(s) /\ s[c] = "%"

\* \d{lo,hi} at position i of s, followed by no further digit: the position
\* after the digits, or 0 when the run of digits there is shorter or longer.
DigitRun(s, i, lo, hi) ==
    LET j == SkipSet(s, i, Digits)
    IN  IF j - i >= lo /\ j - i <= hi THEN j ELSE 0

\* ^\d{a1,a2}[/-]\d{b1,b2}[/-]\d{c1,c2}$
NumericDate(s, a1, a2, b1, b2, c1, c2) ==
    LET p == DigitRun(s, 1, a1, a2)
        q == IF p /= 0 /\ p <= Len(s) /\ s[p] \in {"/", "-"}
             THEN DigitRun(s, p + 1, b1, b2) ELSE 0
        r == IF q /= 0 /\ q <= Len(s) /\ s[q] \in {"/", "-"}
             THEN DigitRun(s, q + 1, c1, c2) ELSE 0
    IN  r = Len(s) + 1

MonthNames == {<<"j", "a", "n">>, <<"f", "e", "b">>, <<"m", "a", "r">>, <<"a", "p", "r">>,
               <<"m", "a", "y">>, <<"j", "u", "n">>, <<"j", "u", "l">>, <<"a", "u", "g">>,
               <<"s", "e", "p">>, <<"o", "c", "t">>, <<"n", "o", "v">>, <<"d", "e", "c">>}

\* ^(?:Jan|...|Dec)[a-z]*\s+\d{1,2},?\s+\d{4}$ with re.IGNORECASE
MonthDate(s) ==
    LET a == SkipSet(s, 4, Letters)
        b == SkipSet(s, a, Spaces)
        c == DigitRun(s, b, 1, 2)
        d == IF c /= 0 /\ c <= Len(s) /\ s[c] = "," THEN c + 1 ELSE c
        e == IF c /= 0 THEN SkipSet(s, d, Spaces) ELSE 0
        f == IF c /= 0 THEN DigitRun(s, e, 4, 4) ELSE 0
    IN  /\ Len(s) >= 3 /\ Lower(SubSeq(s, 1, 3)) \in MonthNames
        /\ b > a /\ c /= 0 /\ e > d /\ f = Len(s) + 1

\* any(p.match(str_value) for p in self.date_patterns)
DatePattern(s) ==
    \/ NumericDate(s, 1, 2, 1, 2, 2, 4)
    \/ NumericDate(s, 4, 4, 1, 2, 1, 2)
    \/ MonthDate(s)

\* TableAligner._is_number
IsNumber(value) == ~Raised(PyFloat(Without(value, {",", " "})))

\* table_alignment.py:175-184, the classification of one non-empty cell.
CellClass(str_value) ==
    IF CurrencyPattern(str_value) THEN "currency"
    ELSE IF PercentagePattern(str_value) THEN "percentage"
    ELSE IF DatePattern(str_value) THEN "date"
    ELSE IF IsNumber(str_value) THEN "number"
    ELSE "text"

\* The keys of type_counts in insertion order (table_alignment.py:161-167):
\* max(type_counts, key=type_counts.get) returns the first key, in this order,
\* that has the largest count.
TypeKeys == <<"currency", "percentage", "number", "date", "text">>

\* type_counts after the loop of _detect_type.
TypeCounts(vals) ==
    [t \in Range(TypeKeys) |->
        Cardinality({i \in 1..Len(vals) :
            Strip(vals[i]) /= <<>> /\ CellClass(Strip(vals[i])) = t})]

\* max(type_counts, key=type_counts.get): the first key, in insertion order,
\* with the largest count.
FirstMax(type_counts) ==
    TypeKeys[CHOOSE i \in 1..Len(TypeKeys) :
        /\ \A j \in 1..Len(TypeKeys) : type_counts[TypeKeys[j]] <= type_counts[TypeKeys[i]]
        /\ \A j \in 1..(i - 1) : type_counts[TypeKeys[j]] < type_counts[TypeKeys[i]]]

\* table_alignment.py:186-190, the result for the counts of the loop.
MostCommon(type_counts) ==
    IF \A t \in Range(TypeKeys) : type_counts[t] = 0 THEN "text"
    ELSE FirstMax(type_counts)

\* TableAligner._detect_type
DetectType(vals) == MostCommon(TypeCounts(vals))

\* TableAligner._detect_column_types
DetectColumnTypes(rows) ==
    IF rows = <<>> THEN <<>>
    ELSE [c \in 1..Len(rows[1]) |->
             LET having == SelectSeq(rows, LAMBDA row : c <= Len(row))
             IN  DetectType([i \in 1..Len(having) |-> having[i][c]])]

\* table_alignment.py:241, float(clean) if clean else 0.0
ParseCurrency(clean) == IF clean /= <<>> THEN PyFloat(clean) ELSE FloatVal(0, 0)

\* A float divided by 100; the ValueError of float() passes through.
DivideBy100(f) == IF Raised(f) THEN f ELSE FloatVal(f.m, f.e + 2)

\* table_alignment.py:245, float(clean) / 100 if clean else 0.0
ParsePercentage(clean) == IF clean = <<>> THEN FloatVal(0, 0) ELSE DivideBy100(PyFloat(clean))

\* table_alignment.py:249-251, float(clean) if '.' in clean else int(clean)
ParseNumber(clean) ==
    IF \E k \in 1..Len(clean) : clean[k] = "." THEN PyFloat(clean) ELSE PyInt(clean)

\* _parse_value without its first test: an empty string is parsed by type.
ParseValueOfBlank(value, expected_type) ==
    IF expected_type = "currency"
    THEN ParseCurrency(SelectSeq(value, LAMBDA ch : ch \in Digits \cup {".", "-"}))
    ELSE IF expected_type = "percentage" THEN ParsePercentage(Strip(Without(value, {"%"})))
    ELSE IF expected_type = "number" THEN ParseNumber(Strip(Without(value, {","})))
    ELSE StrVal(value)
\* TableAligner._parse_value: the parsed value, or ValueError.
ParseValue(value, expected_type) ==
    IF value = <<>> THEN NoneVal
    ELSE IF expected_type = "currency"
    THEN ParseCurrency(SelectSeq(value, LAMBDA ch : ch \in Digits \cup {".", "-"}))
    ELSE IF expected_type = "percentage" THEN ParsePercentage(Strip(Without(value, {"%"})))
    ELSE IF expected_type = "number" THEN ParseNumber(Strip(Without(value, {","})))
    ELSE StrVal(value)

\* table_alignment.py:213-228, one cell of _parse_and_validate: the value
\* appended to parsed_row is the parsed value, or the string when parsing
\* raised ValueError.
ParsedOrString(str_value, parsed_value) ==
    IF Raised(parsed_value) THEN StrVal(str_value) ELSE parsed_value

ParsedCell(value, col_type) ==
    ParsedOrString(Strip(value), ParseValue(Strip(value), col_type))

ColTypeAt(column_types, c) == IF c <= Len(column_types) THEN column_types[c] ELSE "text"

CellError(rows, column_types, r, c) ==
    [row |-> r - 1, col |-> c - 1, value |-> Strip(rows[r][c]),
     expected_type |-> ColTypeAt(column_types, c)]

\* The errors of one row, in column order.
RECURSIVE RowErrors(_, _, _, _)
RowErrors(rows, column_types, r, c) ==
    IF c > Len(rows[r]) THEN <<>>
    ELSE (IF Raised(ParseValue(Strip(rows[r][c]), ColTypeAt(column_types, c)))
          THEN <<CellError(rows, column_types, r, c)>> ELSE <<>>)
         \o RowErrors(rows, column_types, r, c + 1)

RECURSIVE AllErrors(_, _, _)
AllErrors(rows, column_types, r) ==
    IF r > Len(rows) THEN <<>>
    ELSE RowErrors(rows, column_types, r, 1) \o AllErrors(rows, column_types, r + 1)

\* TableAligner._parse_and_validate: [parsed_rows, errors]
ParseAndValidate(rows, column_types) ==
    [parsed_rows |->
        [r \in 1..Len(rows) |->
            [c \in 1..Len(rows[r]) |-> ParsedCell(rows[r][c], ColTypeAt(column_types, c))]],
     errors |-> AllErrors(rows, column_types, 1)]

\* _normalize_columns padding to the length of the first row, not the widest.
NormalizeToFirstRow(m) ==
    IF m = <<>> THEN m
    ELSE [r \in 1..Len(m) |->
             IF Len(m[r]) < Len(m[1])
             THEN m[r] \o [k \in 1..(Len(m[1]) - Len(m[r])) |-> <<>>]
             ELSE m[r]]

\* TableAligner._normalize_columns
MaxCols(m) == CHOOSE n \in {Len(m[r]) : r \in 1..Len(m)} : \A r \in 1..Len(m) : Len(m[r]) <= n
NormalizeColumns(m) ==
    IF m = <<>> THEN m
    ELSE [r \in 1..Len(m) |->
             IF Len(m[r]) < MaxCols(m)
             THEN m[r] \o [k \in 1..(MaxCols(m) - Len(m[r])) |-> <<>>]
             ELSE m[r]]

\* f"Column {i+1}" for the 0-based column i
ColumnName(i) == <<"C", "o", "l", "u", "m", "n", " ">> \o IntToStr(i + 1)

\* re.sub(r'\s+', ' ', s)
RECURSIVE CollapseSpaces(_)
CollapseSpaces(s) ==
    IF s = <<>> THEN <<>>
    ELSE IF s[1] \in Spaces
    THEN <<" ">> \o CollapseSpaces(Slice(s, SkipSet(s, 1, Spaces), Len(s) + 1))
    ELSE <<s[1]>> \o CollapseSpaces(Tail(s))

\* table_alignment.py:125-130, the cleaned text of header i (0-based).
CleanHeader(header, i) ==
    LET clean == SelectSeq(CollapseSpaces(Strip(header)),
                           LAMBDA ch : ch \in WordChars \cup Spaces \cup {"-"})
    IN  IF clean = <<>> THEN ColumnName(i) ELSE clean

\* The duplicate loop testing "clean in seen", without .lower().
RECURSIVE DedupeCaseSensitive(_, _, _, _)
DedupeCaseSensitive(original, clean, counter, seen) ==
    IF clean \in seen
    THEN DedupeCaseSensitive(original, original \o <<"_">> \o IntToStr(counter),
                             counter + 1, seen)
    ELSE clean

\* table_alignment.py:133-137, the duplicate loop: the first of original,
\* original_1, original_2, ... whose lower-case form is not in seen.
RECURSIVE Dedupe(_, _, _, _)
Dedupe(original, clean, counter, seen) ==
    IF Lower(clean) \in seen
    THEN Dedupe(original, original \o <<"_">> \o IntToStr(counter), counter + 1, seen)
    ELSE clean

\* TableAligner._clean_headers
RECURSIVE CleanFrom(_, _, _, _)
CleanFrom(headers, i, cleaned, seen) ==
    IF i >= Len(headers) THEN cleaned
    ELSE LET original == CleanHeader(headers[i + 1], i)
             clean == Dedupe(original, original, 1, seen)
         IN  CleanFrom(headers, i + 1, Append(cleaned, clean), seen \cup {Lower(clean)})
CleanHeaders(headers) == CleanFrom(headers, 0, <<>>, {})

\* table_alignment.py:95-101, the AlignedTable that align() returns.
AlignedTable(headers, column_types, pv) ==
    [headers |-> headers, rows |-> pv.parsed_rows, column_types |-> column_types,
     validation_errors |-> pv.errors, normalized |-> TRUE]

\* table_alignment.py:85-101: clean the headers, parse the data rows by the
\* column types.
AlignTyped(headers, data_rows, column_types) ==
    AlignedTable(CleanHeaders(headers), column_types,
                 ParseAndValidate(data_rows, column_types))

\* table_alignment.py:77-83: the header row and the data rows of the
\* normalized matrix m.
HeaderRow(m, with_header) ==
    IF with_header THEN [c \in 1..Len(m[1]) |-> Strip(m[1][c])]
    ELSE [c \in 1..Len(m[1]) |-> ColumnName(c - 1)]
DataRows(m, with_header) == IF with_header THEN Tail(m) ELSE m

\* table_alignment.py:76-101, align() after the normalization.
AlignRows(headers, data_rows) ==
    AlignTyped(headers, data_rows, DetectColumnTypes(data_rows))

\* TableAligner.align
AlignTable(table_matrix, with_header) ==
    IF table_matrix = <<>>
    THEN [headers |-> <<>>, rows |-> <<>>, column_types |-> <<>>,
          validation_errors |-> <<>>, normalized |-> TRUE]
    ELSE AlignRows(HeaderRow(NormalizeColumns(table_matrix), with_header),
                   DataRows(NormalizeColumns(table_matrix), with_header))

----------------------------------------------------------------------------
(* ErrorCorrector (error_correction.py).  correct() returns the pair        *)
(* [corrected_text, corrections]; a correction is [original, corrected,     *)
(* type].  Where the program iterates over a set of equally good domain     *)
(* words the one it meets first wins, so a function of a word is the set    *)
(* of its possible results.                                                 *)

\* str.upper() of one character and of a str; str.capitalize()
UpperChar(c) ==
    IF c \in Lowers THEN UpperLetters[CHOOSE i \in 1..26 : LowerLetters[i] = c] ELSE c
Upper(s) == [i \in 1..Len(s) |-> UpperChar(s[i])]
Capitalize(s) ==
    [i \in 1..Len(s) |-> IF i = 1 THEN UpperChar(s[i]) ELSE LowerChar(s[i])]

\* str.isalnum() of one character
Alnums == Letters \cup Digits

\* error_correction.py:30-41, self.word_corrections as (key, value) pairs
WordCorrections ==
    {<<<<"t", "e", "h">>, <<"t", "h", "e">>>>,
     <<<<"a", "d", "n">>, <<"a", "n", "d">>>>,
     <<<<"f", "o">>, <<"o", "f">>>>,
     <<<<"o", "t">>, <<"t", "o">>>>,
     <<<<"t", "a", "h", "t">>, <<"t", "h", "a", "t">>>>,
     <<<<"w", "i", "h", "t">>, <<"w", "i", "t", "h">>>>,
     <<<<"f", "r", "o">>, <<"f", "o", "r">>>>,
     <<<<"j", "s", "u", "t">>, <<"j", "u", "s", "t">>>>,
     <<<<"n", "t", "o">>, <<"n", "o", "t">>>>,
     <<<<"h", "t", "e">>, <<"t", "h", "e">>>>}
CorrectionKeys == {kv[1] : kv \in WordCorrections}
CorrectionOf(key) == (CHOOSE kv \in WordCorrections : kv[1] = key)[2]

\* error_correction.py:44-49, self.domain_words
DomainWords ==
    {<<"i", "n", "v", "o", "i", "c", "e">>,
     <<"r", "e", "c", "e", "i", "p", "t">>,
     <<"t", "o", "t", "a", "l">>,
     <<"s", "u", "b", "t", "o", "t", "a", "l">>,
     <<"t", "a", "x">>,
     <<"a", "m", "o", "u", "n", "t">>,
     <<"d", "a", "t", "e">>,
     <<"n", "u", "m", "b", "e", "r">>,
     <<"q", "u", "a", "n", "t", "i", "t", "y">>,
     <<"p", "r", "i", "c", "e">>,
     <<"d", "e", "s", "c", "r", "i", "p", "t", "i", "o", "n">>,
     <<"u", "n", "i", "t">>,
     <<"c", "u", "s", "t", "o", "m", "e", "r">>,
     <<"v", "e", "n", "d", "o", "r">>,
     <<"a", "d", "d", "r", "e", "s", "s">>,
     <<"p", "h", "o", "n", "e">>,
     <<"e", "m", "a", "i", "l">>,
     <<"p", "a", "y", "m", "e", "n", "t">>,
     <<"d", "u", "e">>,
     <<"b", "a", "l", "a", "n", "c", "e">>,
     <<"p", "a", "i", "d">>,
     <<"d", "i", "s", "c", "o", "u", "n", "t">>,
     <<"s", "h", "i", "p", "p", "i", "n", "g">>,
     <<"h", "a", "n", "d", "l", "i", "n", "g">>}

\* str.split(): the maximal runs of characters that are no whitespace.
RECURSIVE SplitFrom(_, _)
SplitFrom(s, i) ==
    IF i > Len(s) THEN <<>>
    ELSE IF s[i] \in Spaces THEN SplitFrom(s, i + 1)
    ELSE <<Slice(s, i, SkipSet(s, i, Range(s) \ Spaces))>>
             \o SplitFrom(s, SkipSet(s, i, Range(s) \ Spaces))
SplitWords(s) == SplitFrom(s, 1)

\* error_correction.py:69-75: where the word proper starts and where it ends
\* inside the token (start = Len + 1 when no character is alphanumeric).
CoreStart(token) == SkipSet(token, 1, Range(token) \ Alnums)
CoreEnd(token) ==
    CHOOSE e \in 0..Len(token) :
        /\ e = 0 \/ token[e] \in Alnums
        /\ \A k \in (e + 1)..Len(token) : token[k] \notin Alnums
PrefixOf(token) == Slice(token, 1, CoreStart(token))
SuffixOf(token) ==
    IF CoreStart(token) > Len(token) THEN <<>>
    ELSE Slice(token, CoreEnd(token) + 1, Len(token) + 1)
CoreOf(token) == Slice(token, CoreStart(token), CoreEnd(token) + 1)

\* error_correction.py:112-116 and 134-137, "Preserve case" with the leading
\* capital alone.
PreserveLeadingCapital(word, corrected) ==
    IF word[1] \in Uppers THEN Capitalize(corrected) ELSE corrected

\* error_correction.py:112-116 and 134-137, "Preserve case"
PreserveCase(word, corrected) ==
    IF IsUpper(word) THEN Upper(corrected)
    ELSE IF word[1] \in Uppers THEN Capitalize(corrected)
    ELSE corrected

\* ErrorCorrector._looks_like_number: at most 30% of the characters are
\* outside [0-9OoIl|.,\-$%].
NumberLike == Digits \cup {"O", "o", "I", "l", "|", ".", ",", "-", "$", "%"}
LooksLikeNumber(str) == 10 * Len(Without(str, NumberLike)) <= 3 * Len(str)

\* ErrorCorrector._correct_number
NumberChar(c) ==
    CASE c \in {"O", "o"} -> "0"
      [] c \in {"I", "l", "|"} -> "1"
      [] c \in {"S", "s"} -> "5"
      [] c = "B" -> "8"
      [] c \in {"Z", "z"} -> "2"
      [] OTHER -> c
CorrectNumber(str) == [i \in 1..Len(str) |-> NumberChar(str[i])]

\* difflib.SequenceMatcher(None, a, b): the longest block a[i..i+k-1] =
\* b[j..j+k-1], the earliest in a and then the earliest in b, and the blocks
\* found the same way to its left and to its right (no junk: autojunk needs
\* 200 characters).
MatchAt(a, b, i, j, k) == SubSeq(a, i, i + k - 1) = SubSeq(b, j, j + k - 1)
HasBlock(a, b, k) ==
    \E i \in 1..(Len(a) - k + 1) : \E j \in 1..(Len(b) - k + 1) : MatchAt(a, b, i, j, k)
LongestLen(a, b) ==
    CHOOSE k \in 0..Min(Len(a), Len(b)) :
        /\ k = 0 \/ HasBlock(a, b, k)
        /\ \A m \in (k + 1)..Min(Len(a), Len(b)) : ~HasBlock(a, b, m)
BlockI(a, b, k) ==
    CHOOSE i \in 1..(Len(a) - k + 1) :
        /\ \E j \in 1..(Len(b) - k + 1) : MatchAt(a, b, i, j, k)
        /\ \A h \in 1..(i - 1) : \A j \in 1..(Len(b) - k + 1) : ~MatchAt(a, b, h, j, k)
BlockJ(a, b, k, i) ==
    CHOOSE j \in 1..(Len(b) - k + 1) :
        /\ MatchAt(a, b, i, j, k)
        /\ \A h \in 1..(j - 1) : ~MatchAt(a, b, i, h, k)
RECURSIVE MatchCount(_, _)
MatchAround(a, b, k, i, j) ==
    k + MatchCount(Slice(a, 1, i), Slice(b, 1, j))
      + MatchCount(Slice(a, i + k, Len(a) + 1), Slice(b, j + k, Len(b) + 1))
MatchFromI(a, b, k, i) == MatchAround(a, b, k, i, BlockJ(a, b, k, i))
MatchOfLen(a, b, k) == IF k = 0 THEN 0 ELSE MatchFromI(a, b, k, BlockI(a, b, k))
MatchCount(a, b) ==
    IF a = <<>> \/ b = <<>> THEN 0 ELSE MatchOfLen(a, b, LongestLen(a, b))

\* ratio() = 2.0 * matches / (len(a) + len(b)) as the pair (numerator,
\* denominator); the comparisons of ratios are made on the fractions.
RatioNum(a, b) == 2 * MatchCount(a, b)
RatioDen(a, b) == Len(a) + Len(b)

\* ErrorCorrector._find_best_match, lines 178-187: the dictionary words of
\* a length within 2 whose score is above the threshold 0.8.
Candidates(word, dictionary) ==
    {d \in dictionary :
        /\ Abs(Len(word) - Len(d)) <= 2
        /\ 10 * RatioNum(word, d) > 8 * RatioDen(word, d)}

\* _find_best_match keeps the first word of the best score it meets: any of
\* the candidates no other candidate beats.
BestMatches(word, dictionary) ==
    {d \in Candidates(word, dictionary) :
        \A o \in Candidates(word, dictionary) :
            RatioNum(word, o) * RatioDen(word, d) <= RatioNum(word, d) * RatioDen(word, o)}

\* ErrorCorrector._correct_word: the possible (corrected, type) pairs.
CorrectWord(word) ==
    IF Lower(word) \in CorrectionKeys
    THEN {[corrected |-> PreserveCase(word, CorrectionOf(Lower(word))),
           type |-> "word_correction"]}
    ELSE IF Lower(word) \in DomainWords
    THEN {[corrected |-> word, type |-> "no_correction"]}
    ELSE IF LooksLikeNumber(word) /\ CorrectNumber(word) /= word
    THEN {[corrected |-> CorrectNumber(word), type |-> "number_correction"]}
    ELSE IF BestMatches(Lower(word), DomainWords) /= {}
    THEN {[corrected |-> PreserveCase(word, d), type |-> "domain_match"] :
             d \in BestMatches(Lower(word), DomainWords)}
    ELSE {[corrected |-> word, type |-> "no_correction"]}

\* A record for every word, changed or not.
RecordsOfEveryWord(word, result) ==
    <<[original |-> word, corrected |-> result.corrected, type |-> result.type]>>

\* error_correction.py:84-91: the record, if the word changed.
RecordsOf(word, result) ==
    IF result.corrected /= word
    THEN <<[original |-> word, corrected |-> result.corrected, type |-> result.type]>>
    ELSE <<>>

\* error_correction.py:64-93, one pass of the loop: the word put back between
\* its punctuation, and the record.
TokenOutcomes(token) ==
    IF CoreOf(token) = <<>>
    THEN {[piece |-> PrefixOf(token) \o SuffixOf(token), records |-> <<>>]}
    ELSE {[piece |-> PrefixOf(token) \o r.corrected \o SuffixOf(token),
           records |-> RecordsOf(CoreOf(token), r)] : r \in CorrectWord(CoreOf(token))}

\* The loop over the words: corrected_words and corrections.
RECURSIVE LoopOutcomes(_)
LoopOutcomes(tokens) ==
    IF tokens = <<>> THEN {[pieces |-> <<>>, corrections |-> <<>>]}
    ELSE {[pieces |-> <<h.piece>> \o t.pieces, corrections |-> h.records \o t.corrections] :
             h \in TokenOutcomes(tokens[1]), t \in LoopOutcomes(Tail(tokens))}

\* ErrorCorrector._fix_spacing, one substitution after the other.
Punctuation == {".", ",", ";", ":", "!", "?"}
\* re.sub(r' +', ' ', text)
RECURSIVE SingleSpaces(_, _)
SingleSpaces(s, i) ==
    IF i > Len(s) THEN <<>>
    ELSE IF s[i] = " " THEN <<" ">> \o SingleSpaces(s, SkipSet(s, i, {" "}))
    ELSE <<s[i]>> \o SingleSpaces(s, i + 1)
\* re.sub(r' ([.,;:!?])', r'\1', text)
RECURSIVE NoSpaceBefore(_, _)
NoSpaceBefore(s, i) ==
    IF i > Len(s) THEN <<>>
    ELSE IF s[i] = " " /\ i < Len(s) /\ s[i + 1] \in Punctuation
    THEN <<s[i + 1]>> \o NoSpaceBefore(s, i + 2)
    ELSE <<s[i]>> \o NoSpaceBefore(s, i + 1)
\* re.sub(r'([.,;:!?])([A-Za-z])', r'\1 \2', text)
RECURSIVE SpaceAfter(_, _)
SpaceAfter(s, i) ==
    IF i > Len(s) THEN <<>>
    ELSE IF s[i] \in Punctuation /\ i < Len(s) /\ s[i + 1] \in Letters
    THEN <<s[i], " ", s[i + 1]>> \o SpaceAfter(s, i + 2)
    ELSE <<s[i]>> \o SpaceAfter(s, i + 1)
\* re.sub(r'\$ +', '$', text)
RECURSIVE DollarTight(_, _)
DollarTight(s, i) ==
    IF i > Len(s) THEN <<>>
    ELSE IF s[i] = "$" /\ i < Len(s) /\ s[i + 1] = " "
    THEN <<"$">> \o DollarTight(s, SkipSet(s, i + 1, {" "}))
    ELSE <<s[i]>> \o DollarTight(s, i + 1)
\* re.sub(r'(\d) +%', r'\1%', text)
RECURSIVE PercentTight(_, _)
PercentTight(s, i) ==
    IF i > Len(s) THEN <<>>
    ELSE IF /\ s[i] \in Digits
            /\ i < Len(s)
            /\ s[i + 1] = " "
            /\ SkipSet(s, i + 1, {" "}) <= Len(s)
            /\ s[SkipSet(s, i + 1, {" "})] = "%"
    THEN <<s[i], "%">> \o PercentTight(s, SkipSet(s, i + 1, {" "}) + 1)
    ELSE <<s[i]>> \o PercentTight(s, i + 1)
FixSpacing(str) ==
    Strip(PercentTight(DollarTight(SpaceAfter(NoSpaceBefore(
        SingleSpaces(str, 1), 1), 1), 1), 1))

\* ErrorCorrector.validate_numbers.  number_pattern is
\* [\$<pound><euro>]?\s*[\d,]+\.?\d*\s*%?: every part but [\d,]+ may be empty and
\* each is greedy, so a match that starts at i is found without backtracking.
\* The positions where the parts end (one past their last character):
AfterSymbol(s, i) == IF s[i] \in {"$", "<pound>", "<euro>"} THEN i + 1 ELSE i
AfterDigits(s, i) == SkipSet(s, SkipSet(s, AfterSymbol(s, i), Spaces), Digits \cup {","})
AfterPoint(s, c) == IF c <= Len(s) /\ s[c] = "." THEN c + 1 ELSE c
AfterPercent(s, f) == IF f <= Len(s) /\ s[f] = "%" THEN f + 1 ELSE f
AfterFraction(s, c) ==
    AfterPercent(s, SkipSet(s, SkipSet(s, AfterPoint(s, c), Digits), Spaces))
\* number_pattern matches at i: [\d,]+ takes at least one character.
NumberAt(s, i) == AfterDigits(s, i) > SkipSet(s, AfterSymbol(s, i), Spaces)
NumberEnd(s, i) == AfterFraction(s, AfterDigits(s, i))

\* re.search(r'\d,\d{1,2}(?!\d)', value): a digit, a comma, and one or two
\* digits that no digit follows.
SuspiciousComma(value) ==
    \E p \in 1..(Len(value) - 2) :
        /\ value[p] \in Digits
        /\ value[p + 1] = ","
        /\ SkipSet(value, p + 2, Digits) - (p + 2) \in {1, 2}

\* value.count('.')
CountPoints(value) == Cardinality({k \in 1..Len(value) : value[k] = "."})

\* error_correction.py:221-237, the issues of one match (start is 0-based).
IssuesOf(value, start) ==
    (IF SuspiciousComma(value)
     THEN <<[value |-> value, position |-> start, issue |-> "suspicious_comma_placement"]>>
     ELSE <<>>)
    \o (IF CountPoints(value) > 1
        THEN <<[value |-> value, position |-> start, issue |-> "multiple_decimal_points"]>>
        ELSE <<>>)

\* re.finditer(number_pattern, text) from position i on and the loop over
\* its matches.
RECURSIVE IssuesFrom(_, _)
IssuesFrom(s, i) ==
    IF i > Len(s) THEN <<>>
    ELSE IF NumberAt(s, i)
    THEN IssuesOf(Strip(Slice(s, i, NumberEnd(s, i))), i - 1)
             \o IssuesFrom(s, NumberEnd(s, i))
    ELSE IssuesFrom(s, i + 1)
ValidateNumbers(str) == IssuesFrom(str, 1)

\* ErrorCorrector.correct: the possible (corrected_text, corrections).
Correct(str) ==
    {[corrected_text |-> FixSpacing(Join(o.pieces, <<" ">>)),
      corrections |-> o.corrections] : o \in LoopOutcomes(SplitWords(str))}

----------------------------------------------------------------------------
(* ImagePreprocessor (preprocessing.py).  An image is [height, width,       *)
(* pixels]: its shape and its pixel buffer, the buffer being the list of    *)
(* the cv2 transformations that produced it from the input buffer <<>>.     *)
(* What cv2 measures on an image is [foreground, angle]: the number of      *)
(* non-zero pixels of the thresholded image and the angle of their          *)
(* minimum-area rectangle.  Angles are in tenths of a degree.  The scale    *)
(* of a resize is the exact quotient, which is what the float arithmetic    *)
(* gives for the sizes considered here.  A corner is <<x, y>>.              *)

DefaultMaxSize == 4096
NoImage == [height |-> 0, width |-> 0, pixels |-> <<>>]
NoMeasure == [foreground |-> 0, angle |-> 0]

\* cv2.resize(image, (new_width, new_height)): an empty target size is an
\* error of cv2.
Cv2Resize(img, new_width, new_height) ==
    IF new_width <= 0 \/ new_height <= 0
        THEN [raised |-> "cv2.error"]
        ELSE [height |-> new_height, width |-> new_width,
              pixels |-> Append(img.pixels, "resize")]

\* _resize_if_needed: every image is resampled, also one at the limit.
ResizeAlways(img, limit) ==
    IF Max(img.height, img.width) >= limit
        THEN Cv2Resize(img,
                       (img.width * limit) \div Max(img.height, img.width),
                       (img.height * limit) \div Max(img.height, img.width))
        ELSE img
\* ImagePreprocessor._resize_if_needed: int(width * scale), int(height * scale)
\* with scale = max_size / max(height, width).
ResizeIfNeeded(img, limit) ==
    IF Max(img.height, img.width) > limit
        THEN Cv2Resize(img,
                       (img.width * limit) \div Max(img.height, img.width),
                       (img.height * limit) \div Max(img.height, img.width))
        ELSE img

\* The angles of _deskew, in tenths of a degree.
HalfDegree == 5
TenDegrees == 100
EighthTurn == 450
QuarterTurn == 900
\* The number of foreground pixels below which _deskew leaves the image.
MinForeground == 10

\* "Correct angle" of _deskew.
NormalizeAngle(angle) ==
    IF angle < -EighthTurn THEN QuarterTurn + angle
    ELSE IF angle > EighthTurn THEN angle - QuarterTurn
    ELSE angle

\* cv2.warpAffine(image, M, (w, h)): a new buffer of the same shape.
WarpAffine(img) == [img EXCEPT !.pixels = Append(img.pixels, "warpAffine")]

\* ImagePreprocessor._deskew for an image on which cv2 measures m.
Deskew(img, m) ==
    IF m.foreground < MinForeground THEN img
    ELSE IF Abs(NormalizeAngle(m.angle)) < HalfDegree
            \/ Abs(NormalizeAngle(m.angle)) > TenDegrees THEN img
    ELSE WarpAffine(img)

\* np.argmin and np.argmax of a list of four numbers: the first index of
\* the least and of the greatest.
ArgMin(f) == CHOOSE i \in 1..Len(f) :
    /\ \A j \in 1..Len(f) : f[i] <= f[j]
    /\ \A j \in 1..(i - 1) : f[j] > f[i]
ArgMax(f) == CHOOSE i \in 1..Len(f) :
    /\ \A j \in 1..Len(f) : f[i] >= f[j]
    /\ \A j \in 1..(i - 1) : f[j] < f[i]

\* corners.sum(axis=1) and np.diff(corners, axis=1).
CornerSums(c) == [i \in 1..Len(c) |-> c[i][1] + c[i][2]]
CornerDiffs(c) == [i \in 1..Len(c) |-> c[i][2] - c[i][1]]

\* ImagePreprocessor._order_corners: top-left, top-right, bottom-right,
\* bottom-left.
OrderCorners(c) ==
    <<c[ArgMin(CornerSums(c))], c[ArgMin(CornerDiffs(c))],
      c[ArgMax(CornerSums(c))], c[ArgMax(CornerDiffs(c))]>>

----------------------------------------------------------------------------
(* The inputs.                                                             *)

\* Bounds of the layout inputs: the number of detected regions and the
\* largest x and y of a region's corner.
MaxRegions == 3
MaxCoord == 2
\* Bound of the fallback inputs: the number of tokens.
MaxTokens == 3
\* Bound of the key-value inputs: the number of lines of the full text.
MaxLines == 2
\* Bounds of the aligner inputs: rows and cells of a ragged matrix, cells of
\* a single column, headers of a header row.
MaxRows == 3
MaxCells == 3
MaxColumn == 3
MaxHeaders == 3
MaxTables == 2
MaxTableRegions == 2
MaxTitleRegions == 2
MaxTitleTokens == 2
MaxMetaLines == 2

\* Bound of the extractor inputs: the number of lines found on an axis.
MaxRules == 3
\* Bound of the corrector inputs: the number of words of the text.
MaxWords == 2
\* Bound of the validator inputs: the number of characters of the text.
MaxChars == 5
Str1(a) == <<a>>

\* Regions as _detect_with_model leaves them (order=0): boxes two wide and
\* two high on a small grid, so that boxes one row of the grid apart overlap
\* vertically and boxes two rows apart do not.
RegionInputs ==
    {[type |-> "paragraph", bbox |-> <<x, y, 2, 2>>, order |-> 0] :
        x \in 0..MaxCoord, y \in 0..MaxCoord}

\* The tokens of the page the regions lie on.
PageTokens == <<[text |-> <<"a">>, bbox |-> <<0, 0, 2, 2>>],
                [text |-> <<"b">>, bbox |-> <<2, 2, 2, 2>>]>>

\* Tokens for the fallback: y positions 0 and 15 cluster into one line, 30 and
\* 60 open further lines.
TokenInputs ==
    {[text |-> t, bbox |-> <<x, y, 5, 5>>] :
        t \in {<<"a">>, <<"B">>}, x \in {0, 10}, y \in {0, 15, 30, 60}}

\* Cells of a single column: blank; the three currency cells of the spec's
\* example; a percentage; a date; an integer and a decimal that the currency
\* pattern does not match; a number with a blank as thousands separator; text.
ColumnCells ==
    {<<>>,
     <<"$", "1", ",", "2", "0", "0", ".", "0", "0">>,
     <<"$", "4", "5", ".", "5", "0">>,
     <<"$", "0", ".", "0", "0">>,
     <<"5", "%">>,
     <<"1", "/", "2", "/", "2", "0", "2", "4">>,
     <<"+", "5">>,
     <<".", "5">>,
     <<"1", " ", "0", "0", "0">>,
     <<"N", "/", "A">>}

\* Cells of a ragged matrix: blank, currency, percentage, text.
MatrixCells ==
    {<<>>,
     <<"$", "1">>,
     <<"5", "%">>,
     <<"N", "/", "A">>}

\* Header cells: blank, punctuation only, punctuation around a blank, the same
\* name in two cases, a name that ends in _1, the name align() synthesizes for
\* the second column.
HeaderCells ==
    {<<>>,
     <<".">>,
     <<".", " ", ".">>,
     <<"A">>,
     <<"a">>,
     <<"a", "_", "1">>,
     <<"C", "o", "l", "u", "m", "n", " ", "2">>}

\* Lines of the full text: the spec's two examples, a second line with the key
\* of the first, lines that two patterns match, lines that one pattern matches,
\* a line that none matches, a line with surrounding blanks.
TextLines ==
    {<<"I", "n", "v", "o", "i", "c", "e", " ", "N", "u", "m", "b", "e", "r", ":", " ", " ", " ", "I", "N", "V", "-", "2", "0", "2", "4", "-", "0", "0", "1">>,
     <<"P", "a", "i", "d", ":", " ", "y", "e", "s">>,
     <<"P", "a", "i", "d", ":", " ", "n", "o">>,
     <<"a", "b", " ", " ", "c", ":", " ", "d">>,
     <<"a", "b", " ", " ", "c", " ", "-", " ", "d">>,
     <<"a", " ", "-", " ", "b", ":", " ", "c">>,
     <<"a", "b", " ", " ", " ", "c", "d">>,
     <<"f", "o", "o">>,
     <<" ", "A", " ", "B", ":", " ", "1", " ">>,
     <<"P", "a", "i", "d", ":", " ", "Y", "E", "S">>,
     <<"k", ":", " ", "$", "1", ",", "2", "0", "0", ".", "5", "0">>,
     <<"k", ":", " ", "<yen>", "5">>,
     <<"k", ":", " ", "1", ".", "2", ".", "3">>,
     <<"k", ":", " ", "N">>,
     <<"k", ":", " ", "-", "5">>}

\* The matrices of at most rows_left rows with at most cells_left cells in all.
RECURSIVE Matrices(_, _)
Matrices(cells_left, rows_left) ==
    IF rows_left = 0 THEN {<<>>}
    ELSE {<<>>} \cup
         UNION {{<<row>> \o rest : rest \in Matrices(cells_left - Len(row), rows_left - 1)} :
                   row \in SeqUpTo(MatrixCells, cells_left)}

\* The matrix of the spec's normalization example, rows of length 3, 5 and 4.
ExampleMatrix ==
    <<[c \in 1..3 |-> <<"$", "1">>], [c \in 1..5 |-> <<"N", "/", "A">>],
      [c \in 1..4 |-> <<"5", "%">>]>>

NoResult == [raised |-> "not called"]

InitIdle ==
    /\ reading_order = <<>>
    /\ document = NoResult
    /\ aligned = NoResult
    /\ detected_type = ""
InitNoExtract ==
    /\ horizontal_lines = <<>>
    /\ vertical_lines = <<>>
    /\ offset = <<0, 0>>
    /\ found_tables = NoResult
InitNoCorrect ==
    /\ input_text = <<>>
    /\ correction = NoResult
    /\ recorrection = NoResult
    /\ issues = NoResult
InitNoPreprocess ==
    /\ max_size = DefaultMaxSize
    /\ image = NoImage
    /\ measured = NoMeasure
    /\ resized = NoResult
    /\ deskewed = NoResult
    /\ redeskewed = NoResult
    /\ corners = <<>>
    /\ ordered = NoResult
InitRest == InitIdle /\ InitNoExtract /\ InitNoCorrect /\ InitNoPreprocess

InitNoTable ==
    /\ matrix = <<>>
    /\ has_header = TRUE
    /\ values = <<>>

\* A page with regions: detect() then structure().
Init ==
    /\ pc = "detect"
    /\ regions \in SeqUpTo(RegionInputs, MaxRegions)
    /\ ocr_blocks = PageTokens
    /\ full_text = <<"a", " ", "b">>
    /\ table_result = NoTableResult
    /\ InitNoTable
    /\ InitRest

\* A page on which no region is detected.
InitFallback ==
    /\ pc = "detect"
    /\ regions = <<>>
    /\ ocr_blocks \in SeqUpTo(TokenInputs, MaxTokens)
    /\ full_text = <<>>
    /\ table_result = NoTableResult
    /\ InitNoTable
    /\ InitRest

\* A page of text only: no region, no token, the lines of the full text.
InitKV ==
    /\ pc = "detect"
    /\ regions = <<>>
    /\ ocr_blocks = <<>>
    /\ full_text \in {Join(lines, <<"\n">>) : lines \in SeqUpTo(TextLines, MaxLines)}
    /\ table_result = NoTableResult
    /\ InitNoTable
    /\ InitRest

InitNoPage ==
    /\ regions = <<>>
    /\ ocr_blocks = <<>>
    /\ full_text = <<>>
    /\ table_result = NoTableResult

\* A ragged matrix for align(), with or without a header row.
InitAlign ==
    /\ pc = "align"
    /\ matrix \in Matrices(MaxCells, MaxRows) \cup {ExampleMatrix}
    /\ has_header \in BOOLEAN
    /\ values = <<>>
    /\ InitNoPage
    /\ InitRest

\* A single column: _detect_type on its cells, then align() on the one-column
\* matrix without a header row.
InitColumn ==
    /\ pc = "detect_type"
    /\ values \in SeqUpTo(ColumnCells, MaxColumn)
    /\ matrix = [r \in 1..Len(values) |-> <<values[r]>>]
    /\ has_header = FALSE
    /\ InitNoPage
    /\ InitRest

\* A header row alone, read as the header or as the only data row.
InitHeaders ==
    /\ pc = "align"
    /\ \E headers \in SeqUpTo(HeaderCells, MaxHeaders) : matrix = <<headers>>
    /\ has_header \in BOOLEAN
    /\ values = <<>>
    /\ InitNoPage
    /\ InitRest

\* The tokens of a page handed to _organize_text.
InitOcr ==
    /\ pc = "ocr"
    /\ ocr_blocks \in SeqUpTo(TokenInputs, MaxTokens)
    /\ regions = <<>>
    /\ full_text = <<>>
    /\ table_result = NoTableResult
    /\ InitNoTable
    /\ InitRest

\* One paragraph region over the upper part of the page and the tokens in
\* any order: the token rows at y = 0, 15 and 30 have their centres in the
\* region, the row at y = 60 has not.
TextRegion == [type |-> "paragraph", bbox |-> <<0, 0, 20, 40>>, order |-> 0]
InitRegionText ==
    /\ pc = "detect"
    /\ regions = <<TextRegion>>
    /\ ocr_blocks \in SeqUpTo(TokenInputs, MaxTokens)
    /\ full_text = <<>>
    /\ table_result = NoTableResult
    /\ InitNoTable
    /\ InitRest

\* Detected tables against a region with bbox (0, 0, 4, 4): a table with
\* bbox (tx, 0, tw, 4) lies in the region with all, half, a quarter or none
\* of its area, or has no area; its matrix names tx and tw.
TableInputs ==
    {[bbox |-> <<tx, 0, tw, 4>>, matrix |-> <<<<IntToStr(tx), IntToStr(tw)>>>>] :
        tx \in {0, 2, 3}, tw \in {0, 2, 4}}
TableRegionInputs ==
    {[type |-> t, bbox |-> <<0, 0, 4, 4>>, order |-> 0] : t \in {"table", "paragraph"}}

\* A page with table and paragraph regions, with or without a table result.
InitTable ==
    /\ pc = "detect"
    /\ regions \in SeqUpTo(TableRegionInputs, MaxTableRegions)
    /\ ocr_blocks = PageTokens
    /\ full_text = <<"a", " ", "b">>
    /\ table_result \in {NoTableResult}
                           \cup {TableResult(ts) : ts \in SeqUpTo(TableInputs, MaxTables)}
    /\ InitNoTable
    /\ InitRest

\* The words of one line of a page without regions: bullet and number
\* markers, a label with its colon, words in upper and in lower case.  The
\* tokens share one box, so the (y, x) sort keeps them in input order.
LineWords == {<<"-">>, <<"<bullet>">>, <<"1", ".">>, <<"1", "2", ".">>, <<"1">>, <<"k", ":">>, <<"i", "t", "e", "m">>, <<"I", "T", "E", "M">>}
LineTokens == {[text |-> w, bbox |-> <<0, 0, 5, 5>>] : w \in LineWords}
InitClassify ==
    /\ pc = "detect"
    /\ regions = <<>>
    /\ ocr_blocks \in SeqUpTo(LineTokens, MaxTokens)
    /\ full_text = <<>>
    /\ table_result = NoTableResult
    /\ InitNoTable
    /\ InitRest

\* A list region over the tokens of LineTokens and a line break: the region
\* text is their texts in input order.
ListRegion == [type |-> "list", bbox |-> <<0, 0, 20, 40>>, order |-> 0]
ListTokens == LineTokens \cup {[text |-> <<"\n">>, bbox |-> <<0, 0, 5, 5>>]}
InitList ==
    /\ pc = "detect"
    /\ regions = <<ListRegion>>
    /\ ocr_blocks \in SeqUpTo(ListTokens, MaxTokens)
    /\ full_text = <<>>
    /\ table_result = NoTableResult
    /\ InitNoTable
    /\ InitRest

\* Title, paragraph and list regions over two tokens; without regions the
\* tokens form one line, a heading when it is in upper case.
TitleRegionInputs ==
    {[type |-> t, bbox |-> b, order |-> 0] :
        t \in {"title", "paragraph", "list"},
        b \in {<<0, 0, 2, 2>>, <<2, 2, 2, 2>>, <<0, 0, 4, 4>>}}
TitleTokens ==
    {[text |-> <<"A">>, bbox |-> <<0, 0, 2, 2>>],
     [text |-> <<"b">>, bbox |-> <<2, 2, 2, 2>>],
     [text |-> <<"B">>, bbox |-> <<2, 2, 2, 2>>]}
InitTitle ==
    /\ pc = "detect"
    /\ regions \in SeqUpTo(TitleRegionInputs, MaxTitleRegions)
    /\ ocr_blocks \in SeqUpTo(TitleTokens, MaxTitleTokens)
    /\ full_text = <<>>
    /\ table_result = NoTableResult
    /\ InitNoTable
    /\ InitRest

\* Regions, tables and text lines that vary together: two lines with a key,
\* one without.
MetaLines == {<<"k", ":", " ", "v">>, <<"j", ":", " ", "w">>, <<"a", " ", "b">>}
MetaTables == {t \in TableInputs : t.bbox[1] = 0 /\ t.bbox[3] >= 2}
InitMeta ==
    /\ pc = "detect"
    /\ regions \in SeqUpTo(TableRegionInputs, MaxTableRegions)
    /\ ocr_blocks = PageTokens
    /\ full_text \in {Join(lines, <<"\n">>) : lines \in SeqUpTo(MetaLines, MaxMetaLines)}
    /\ table_result \in {NoTableResult}
                           \cup {TableResult(ts) : ts \in SeqUpTo(MetaTables, MaxTables)}
    /\ InitNoTable
    /\ InitRest

\* Lines as _detect_lines returns them: horizontal rules across the image
\* at three heights, vertical rules at three abscissas; a rule may be found
\* twice.
HLineInputs == {<<0, y, 10, 1>> : y \in {0, 5, 9}}
VLineInputs == {<<x, 0, 1, 10>> : x \in {0, 4, 10}}
\* What pytesseract reads in a cell.
CellTexts == {<<>>, <<"x">>}
InitExtract ==
    /\ pc = "extract"
    /\ horizontal_lines \in SeqUpTo(HLineInputs, MaxRules)
    /\ vertical_lines \in SeqUpTo(VLineInputs, MaxRules)
    /\ offset \in {<<0, 0>>, <<3, 4>>}
    /\ found_tables = NoResult
    /\ InitNoPage
    /\ InitNoTable
    /\ InitIdle
    /\ InitNoCorrect
    /\ InitNoPreprocess

\* Words of a text for correct(): misrecognitions in lower case, with a
\* leading capital, in upper case and in mixed case, two of them between
\* punctuation, a domain word, a word that is neither, and a misspelt domain
\* word.
CorrectWords ==
    {<<"t", "e", "h">>,
     <<"T", "e", "h">>,
     <<"T", "E", "H">>,
     <<"t", "E", "H">>,
     <<"f", "O">>,
     <<"h", "t", "e", ",">>,
     <<"(", "J", "s", "u", "t", ")">>,
     <<"T", "o", "t", "a", "l">>,
     <<"x">>,
     <<"t", "o", "t", "l">>}
\* Words for correct() called on its own output: a misrecognition alone,
\* after a comma and after a comma inside a token, one between brackets, a
\* domain word, a misspelt domain word, a misread number, a word that is
\* none of these, and two signs.
RecorrectWords ==
    {<<"t", "e", "h">>,
     <<",", "t", "e", "h">>,
     <<"x", ",", "t", "e", "h">>,
     <<"(", "h", "t", "e", ")">>,
     <<"T", "o", "t", "a", "l">>,
     <<"t", "o", "t", "l">>,
     <<"l", "0", "O">>,
     <<"x">>,
     <<"$">>,
     <<"%">>}
InitRecorrect ==
    /\ pc = "correct"
    /\ input_text \in {Join(ws, <<" ">>) : ws \in SeqUpTo(RecorrectWords, MaxWords)}
    /\ correction = NoResult
    /\ recorrection = NoResult
    /\ issues = NoResult
    /\ InitNoPage
    /\ InitNoTable
    /\ InitIdle
    /\ InitNoExtract
    /\ InitNoPreprocess

\* Texts for validate_numbers(): digits, commas, points, a blank and the
\* signs of the number pattern.
NumberChars == {"1", "2", "3", ",", ".", " ", "$", "%"}
InitValidate ==
    /\ pc = "validate"
    /\ input_text \in SeqUpTo(NumberChars, MaxChars)
    /\ correction = NoResult
    /\ recorrection = NoResult
    /\ issues = NoResult
    /\ InitNoPage
    /\ InitNoTable
    /\ InitIdle
    /\ InitNoExtract
    /\ InitNoPreprocess

InitCorrect ==
    /\ pc = "correct"
    /\ input_text \in {Join(ws, <<" ">>) : ws \in SeqUpTo(CorrectWords, MaxWords)}
    /\ correction = NoResult
    /\ recorrection = NoResult
    /\ issues = NoResult
    /\ InitNoPage
    /\ InitNoTable
    /\ InitIdle
    /\ InitNoExtract
    /\ InitNoPreprocess

\* Bound of the blank-cell inputs: the number of rows without text.
MaxBlankRows == 2

\* Cells without text, empty or of blanks only, and one cell of each type
\* _detect_type tells apart.
BlankCells == {<<>>, <<" ">>}
TypedCells ==
    {<<"$", "1">>,
     <<"5", "%">>,
     <<"7">>,
     <<"1", "/", "2", "/", "2", "4">>,
     <<"x">>}
\* A row of one or two cells with text, which is the header row or gives the
\* columns their types, over rows of no, one or two cells without text, the
\* shorter of which are padded.
TypedRows == {<<a>> : a \in TypedCells} \cup {<<a, b>> : a, b \in TypedCells}
BlankRows == {<<>>} \cup {<<a>> : a \in BlankCells} \cup {<<a, b>> : a, b \in BlankCells}
InitBlank ==
    /\ pc = "align"
    /\ \E first \in TypedRows, rest \in SeqUpTo(BlankRows, MaxBlankRows) :
          matrix = <<first>> \o rest
    /\ has_header \in BOOLEAN
    /\ values = <<>>
    /\ InitNoPage
    /\ InitRest

\* Bounds of the preprocessor inputs: the configured max_size, the sides of
\* an image and the coordinates of a corner.
MaxSize == 3
MaxSide == 6
MaxXY == 2

InitNoImage ==
    /\ InitNoPage
    /\ InitNoTable
    /\ InitIdle
    /\ InitNoExtract
    /\ InitNoCorrect

\* Images for _resize_if_needed(): every shape up to MaxSide, under every
\* max_size up to MaxSize.
InitResize ==
    /\ pc = "resize"
    /\ max_size \in 1..MaxSize
    /\ image \in {[height |-> h, width |-> w, pixels |-> <<>>] :
                    h \in 1..MaxSide, w \in 1..MaxSide}
    /\ measured = NoMeasure
    /\ resized = NoResult
    /\ deskewed = NoResult
    /\ redeskewed = NoResult
    /\ corners = <<>>
    /\ ordered = NoResult
    /\ InitNoImage

\* What cv2 can measure on an image: fewer and more foreground pixels than
\* _deskew asks for, and angles of cv2.minAreaRect between -90 and 90
\* degrees, on both sides of each angle _deskew compares with.
SkewAngles ==
    {-900, -896, -895, -894, -800, -451, -450, -101, -100, -99, -30, -6, -5, -4,
     0, 4, 5, 6, 30, 99, 100, 101, 450, 451, 800, 894, 895, 896, 900}
Measures == {[foreground |-> n, angle |-> a] : n \in {0, 9, 10, 500}, a \in SkewAngles}
InitDeskew ==
    /\ pc = "deskew"
    /\ max_size = DefaultMaxSize
    /\ image \in {[height |-> h, width |-> h + 1, pixels |-> <<>>] : h \in 1..MaxSide}
    /\ measured \in Measures
    /\ resized = NoResult
    /\ deskewed = NoResult
    /\ redeskewed = NoResult
    /\ corners = <<>>
    /\ ordered = NoResult
    /\ InitNoImage

\* Corners for _order_corners(): four distinct points of a small grid, in
\* any order.
Points == (0..MaxXY) \X (0..MaxXY)
InitCorners ==
    /\ pc = "order corners"
    /\ max_size = DefaultMaxSize
    /\ image = NoImage
    /\ measured = NoMeasure
    /\ resized = NoResult
    /\ deskewed = NoResult
    /\ redeskewed = NoResult
    /\ corners \in {c \in [1..4 -> Points] : \A i, j \in 1..4 : i # j => c[i] # c[j]}
    /\ ordered = NoResult
    /\ InitNoImage

----------------------------------------------------------------------------
(* The operations.                                                         *)

\* LayoutDetector.detect on the regions the detection step found.
Detect ==
    /\ pc = "detect"
    /\ reading_order' = DetermineReadingOrder(regions)
    /\ regions' = UpdateRegionOrder(regions, DetermineReadingOrder(regions))
    /\ pc' = "structure"
    /\ UNCHANGED <<ocr_blocks, full_text, table_result, document,
                   matrix, has_header, aligned, values, detected_type>>
    /\ UNCHANGED <<extractorVars, correctorVars, preprocessorVars>>

\* DataStructurer.structure on the dictionaries of the OCR, layout and table
\* results.
Structure ==
    /\ pc = "structure"
    /\ document' = StructureDocument(ocr_blocks, full_text, regions, table_result)
    /\ pc' = "done"
    /\ UNCHANGED <<regions, reading_order, ocr_blocks, full_text, table_result,
                   matrix, has_header, aligned, values, detected_type>>
    /\ UNCHANGED <<extractorVars, correctorVars, preprocessorVars>>

\* TableAligner._detect_type on a column of cell values.
DetectTypeCall ==
    /\ pc = "detect_type"
    /\ detected_type' = DetectType(values)
    /\ pc' = "align"
    /\ UNCHANGED <<regions, reading_order, ocr_blocks, full_text, table_result,
                   document, matrix, has_header, aligned, values>>
    /\ UNCHANGED <<extractorVars, correctorVars, preprocessorVars>>

\* TableAligner.align
Align ==
    /\ pc = "align"
    /\ aligned' = AlignTable(matrix, has_header)
    /\ pc' = "done"
    /\ UNCHANGED <<regions, reading_order, ocr_blocks, full_text, table_result,
                   document, matrix, has_header, values, detected_type>>
    /\ UNCHANGED <<extractorVars, correctorVars, preprocessorVars>>

\* _organize_text building the full text of the page from its tokens.
OrganizeTextCall ==
    /\ pc = "ocr"
    /\ full_text' = OrganizeText(ocr_blocks)
    /\ pc' = "organized"
    /\ UNCHANGED <<regions, reading_order, ocr_blocks, table_result, document,
                   matrix, has_header, aligned, values, detected_type>>
    /\ UNCHANGED <<extractorVars, correctorVars, preprocessorVars>>

\* TableExtractor._extract_heuristic on the detected lines.
ExtractHeuristicCall ==
    /\ pc = "extract"
    /\ \E texts \in [1..Len(FindCells(horizontal_lines, vertical_lines)) -> CellTexts] :
           found_tables' = ExtractHeuristic(horizontal_lines, vertical_lines, offset, texts)
    /\ pc' = "extracted"
    /\ UNCHANGED <<horizontal_lines, vertical_lines, offset>>
    /\ UNCHANGED <<pageVars, correctorVars, preprocessorVars>>

\* ErrorCorrector.correct
CorrectCall ==
    /\ pc = "correct"
    /\ \E result \in Correct(input_text) : correction' = result
    /\ pc' = "corrected"
    /\ UNCHANGED <<input_text, recorrection, issues>>
    /\ UNCHANGED <<pageVars, extractorVars, preprocessorVars>>

\* ErrorCorrector.correct on the text it returned.
CorrectAgainCall ==
    /\ pc = "corrected"
    /\ \E result \in Correct(correction.corrected_text) : recorrection' = result
    /\ pc' = "corrected again"
    /\ UNCHANGED <<input_text, correction, issues>>
    /\ UNCHANGED <<pageVars, extractorVars, preprocessorVars>>

\* ErrorCorrector.validate_numbers
ValidateNumbersCall ==
    /\ pc = "validate"
    /\ issues' = ValidateNumbers(input_text)
    /\ pc' = "validated"
    /\ UNCHANGED <<input_text, correction, recorrection>>
    /\ UNCHANGED <<pageVars, extractorVars, preprocessorVars>>

\* ImagePreprocessor._resize_if_needed
ResizeIfNeededCall ==
    /\ pc = "resize"
    /\ resized' = ResizeIfNeeded(image, max_size)
    /\ pc' = "resized"
    /\ UNCHANGED <<max_size, image, measured, deskewed, redeskewed, corners, ordered>>
    /\ UNCHANGED <<pageVars, extractorVars, correctorVars>>

\* ImagePreprocessor._deskew
DeskewCall ==
    /\ pc = "deskew"
    /\ deskewed' = Deskew(image, measured)
    /\ pc' = "deskewed"
    /\ UNCHANGED <<max_size, image, measured, resized, redeskewed, corners, ordered>>
    /\ UNCHANGED <<pageVars, extractorVars, correctorVars>>

\* ImagePreprocessor._deskew on the image it returned: cv2 measures the same
\* on the same buffer, and anything on a rotated one.
DeskewAgainCall ==
    /\ pc = "deskewed"
    /\ \E m \in (IF deskewed = image THEN {measured} ELSE Measures) :
          redeskewed' = Deskew(deskewed, m)
    /\ pc' = "deskewed again"
    /\ UNCHANGED <<max_size, image, measured, resized, deskewed, corners, ordered>>
    /\ UNCHANGED <<pageVars, extractorVars, correctorVars>>

\* ImagePreprocessor._order_corners
OrderCornersCall ==
    /\ pc = "order corners"
    /\ ordered' = OrderCorners(corners)
    /\ pc' = "corners ordered"
    /\ UNCHANGED <<max_size, image, measured, resized, deskewed, redeskewed, corners>>
    /\ UNCHANGED <<pageVars, extractorVars, correctorVars>>

Next == Detect \/ Structure
Spec == Init /\ [][Next]_vars
SpecFallback == InitFallback /\ [][Next]_vars
SpecKV == InitKV /\ [][Next]_vars
SpecRegionText == InitRegionText /\ [][Next]_vars
SpecTable == InitTable /\ [][Next]_vars
SpecClassify == InitClassify /\ [][Next]_vars
SpecList == InitList /\ [][Next]_vars
SpecTitle == InitTitle /\ [][Next]_vars
SpecMeta == InitMeta /\ [][Next]_vars

NextOcr == OrganizeTextCall
SpecOcr == InitOcr /\ [][NextOcr]_vars

NextExtract == ExtractHeuristicCall
SpecExtract == InitExtract /\ [][NextExtract]_vars

NextCorrect == CorrectCall
SpecCorrect == InitCorrect /\ [][NextCorrect]_vars

NextRecorrect == CorrectCall \/ CorrectAgainCall
SpecRecorrect == InitRecorrect /\ [][NextRecorrect]_vars

NextValidate == ValidateNumbersCall
SpecValidate == InitValidate /\ [][NextValidate]_vars

NextResize == ResizeIfNeededCall
SpecResize == InitResize /\ [][NextResize]_vars

NextDeskew == DeskewCall \/ DeskewAgainCall
SpecDeskew == InitDeskew /\ [][NextDeskew]_vars

NextCorners == OrderCornersCall
SpecCorners == InitCorners /\ [][NextCorners]_vars

NextAlign == Align
SpecAlign == InitAlign /\ [][NextAlign]_vars
SpecHeaders == InitHeaders /\ [][NextAlign]_vars
SpecBlank == InitBlank /\ [][NextAlign]_vars

NextColumn == DetectTypeCall \/ Align
SpecColumn == InitColumn /\ [][NextColumn]_vars

----------------------------------------------------------------------------
(* Reading order (layout.py) and the order of the emitted blocks.          *)

\* C1: after detect() on N regions the order fields are pairwise distinct and
\* are exactly 0..N-1, and reading_order is a permutation of the region
\* indices 0..N-1 (empty for N = 0).
C1_OrderIsPermutation ==
    pc /= "detect" =>
        LET N == Len(regions)
        IN  /\ {regions[i].order : i \in 1..N} = 0..(N - 1)
            /\ \A i, j \in 1..N : i /= j => regions[i].order /= regions[j].order
            /\ Len(reading_order) = N
            /\ {reading_order[k] : k \in 1..N} = 0..(N - 1)
            /\ \A k \in 1..N : regions[reading_order[k] + 1].order = k - 1

\* Three regions in two rows, read in another order than they were detected in.
C1_Witness ==
    /\ pc = "structure"
    /\ Len(regions) = 3
    /\ Len(ReadingRows(regions)) = 2
    /\ reading_order = <<2, 0, 1>>

\* The vertical extents [y, y+h) of two regions have no point in common.
Disjoint(a, b) ==
    \/ a.bbox[2] + a.bbox[4] <= b.bbox[2]
    \/ b.bbox[2] + b.bbox[4] <= a.bbox[2]

\* C2: of two regions whose vertical extents do not overlap, the one with the
\* smaller top y has the smaller order index, whatever else is on the page.
C2_UpperRegionFirst ==
    pc /= "detect" =>
        \A i, j \in 1..Len(regions) :
            (Disjoint(regions[i], regions[j]) /\ regions[i].bbox[2] < regions[j].bbox[2])
                => regions[i].order < regions[j].order

\* C3: the k-th block structure() emits is built from the region whose
\* reading-order index is k, and the blocks' order indices increase strictly.
C3_BlocksInReadingOrder ==
    (pc = "done" /\ regions /= <<>>) =>
        /\ document.raised = ""
        /\ Len(document.blocks) = Len(regions)
        /\ \A k \in 1..Len(document.blocks) :
               /\ document.blocks[k].bbox = regions[reading_order[k] + 1].bbox
               /\ document.blocks[k].order = k - 1

\* The lines of the 20-pixel clustering rule, as the number of lines that a
\* sweep over the top y positions in ascending order opens: a token opens a
\* line when it lies more than the threshold below the token that opened the
\* current line.
RECURSIVE LinesOpened(_, _, _)
LinesOpened(ys, k, ref) ==
    IF k > Len(ys) THEN 0
    ELSE IF ys[k] - ref > LineThreshold
    THEN 1 + LinesOpened(ys, k + 1, ys[k])
    ELSE LinesOpened(ys, k + 1, ref)
LineCount(blocks) ==
    LET sorted == SortedBlocks(blocks)
        ys == [k \in 1..Len(sorted) |-> sorted[k].bbox[2]]
    IN  IF blocks = <<>> THEN 0 ELSE 1 + LinesOpened(ys, 2, ys[1])

\* C4: with no region and at least one token, structure() returns without
\* raising, with one block per token line and the order indices 0, 1, 2, ...
C4_FallbackReturnsLines ==
    (pc = "done" /\ regions = <<>> /\ ocr_blocks /= <<>>) =>
        /\ document.raised = ""
        /\ Len(document.blocks) = LineCount(ocr_blocks)
        /\ \A k \in 1..Len(document.blocks) : document.blocks[k].order = k - 1

----------------------------------------------------------------------------
(* Table aligner (table_alignment.py).                                     *)

\* The votes of a column for a type: its non-empty cells of that class.
Votes(vals, t) ==
    Cardinality({i \in 1..Len(vals) :
        Strip(vals[i]) /= <<>> /\ CellClass(Strip(vals[i])) = t})

Position(priority, t) == CHOOSE i \in 1..Len(priority) : priority[i] = t

\* t has the most votes, and every type that ties with it comes later in the
\* priority order.
WinsVote(vals, priority, t) ==
    /\ t \in Range(priority)
    /\ \A u \in Range(priority) \ {t} :
           \/ Votes(vals, u) < Votes(vals, t)
           \/ /\ Votes(vals, u) = Votes(vals, t)
              /\ Position(priority, t) < Position(priority, u)

NoVote(vals) == \A i \in 1..Len(vals) : Strip(vals[i]) = <<>>

\* C5 as stated: the column type is the plurality vote, ties broken by
\* currency > percentage > date > number > text; no non-empty cell gives text.
C5_TieDateBeforeNumber ==
    pc /= "detect_type" =>
        IF NoVote(values) THEN detected_type = "text"
        ELSE WinsVote(values, <<"currency", "percentage", "date", "number", "text">>,
                      detected_type)

\* What _detect_type does instead: ties go by currency > percentage > number >
\* date > text, the order of the keys of type_counts, so a date/number tie
\* yields number.
C5_TieNumberBeforeDate ==
    pc /= "detect_type" =>
        IF NoVote(values) THEN detected_type = "text"
        ELSE WinsVote(values, <<"currency", "percentage", "number", "date", "text">>,
                      detected_type)

\* The data rows of the input as align() sees them, and the stripped text of
\* the input cell behind the parsed cell (r, c); a cell added by padding is
\* empty.
InputRows == IF has_header THEN Tail(matrix) ELSE matrix
InputCell(r, c) == IF c <= Len(InputRows[r]) THEN Strip(InputRows[r][c]) ELSE <<>>

\* The text denotes a value of the type: a decimal number once the currency
\* symbol and the thousands separators, the percent sign, or the thousands
\* separators are taken away; any text is a date or text value.
Denotes(text, type) ==
    CASE type = "currency" ->
             ~Raised(PyFloat(Without(text, CurrencySymbols \cup {","} \cup Spaces)))
      [] type = "percentage" -> ~Raised(PyFloat(Without(text, {"%"} \cup Spaces)))
      [] type = "number" -> ~Raised(PyFloat(Without(text, {","})))
      [] OTHER -> TRUE

ErrorsAt(r, c) ==
    {k \in 1..Len(aligned.validation_errors) :
        /\ aligned.validation_errors[k].row = r - 1
        /\ aligned.validation_errors[k].col = c - 1}

\* C6: every non-empty cell that cannot be parsed as a value of its column's
\* type yields one validation error with its row, column, raw value and
\* expected type, and the output row keeps the original string.
C6_UnparseableCellReported ==
    pc = "done" =>
        \A r \in 1..Len(aligned.rows) : \A c \in 1..Len(aligned.rows[r]) :
            (InputCell(r, c) /= <<>> /\ ~Denotes(InputCell(r, c), aligned.column_types[c]))
                => /\ Cardinality(ErrorsAt(r, c)) = 1
                   /\ \A k \in ErrorsAt(r, c) :
                          /\ aligned.validation_errors[k].value = InputCell(r, c)
                          /\ aligned.validation_errors[k].expected_type
                                 = aligned.column_types[c]
                   /\ aligned.rows[r][c] = StrVal(InputCell(r, c))

\* C7: normalization makes every row as long as the widest input row, keeping
\* the row's cells as a prefix and padding with empty strings, and every data
\* row of the table align() returns has len(headers) columns.
C7_RowsPaddedToWidest ==
    (pc = "done" /\ matrix /= <<>>) =>
        LET norm == NormalizeColumns(matrix)
        IN  /\ Len(norm) = Len(matrix)
            /\ \A r \in 1..Len(matrix) :
                   /\ \A q \in 1..Len(matrix) : Len(matrix[q]) <= Len(norm[r])
                   /\ \E q \in 1..Len(matrix) : Len(matrix[q]) = Len(norm[r])
                   /\ \A c \in 1..Len(norm[r]) :
                          norm[r][c] = IF c <= Len(matrix[r]) THEN matrix[r][c] ELSE <<>>
            /\ \A r \in 1..Len(aligned.rows) : Len(aligned.rows[r]) = Len(aligned.headers)
            /\ Len(aligned.rows) = Len(InputRows)

\* The rows of length 3, 5 and 4 of the spec's example, the first as header.
C7_Witness ==
    /\ pc = "done"
    /\ has_header
    /\ [r \in 1..Len(matrix) |-> Len(matrix[r])] = <<3, 5, 4>>
    /\ Len(aligned.headers) = 5
    /\ [r \in 1..Len(aligned.rows) |-> Len(aligned.rows[r])] = <<5, 5>>

\* C8: every header align() returns is a non-empty string and no two are
\* equal when compared case-insensitively.
C8_HeadersUnique ==
    pc = "done" =>
        /\ \A i \in 1..Len(aligned.headers) : aligned.headers[i] /= <<>>
        /\ \A i, j \in 1..Len(aligned.headers) :
               i /= j => Lower(aligned.headers[i]) /= Lower(aligned.headers[j])

\* The header row a, A, a_1: the second and the third name are taken.
C8_Witness ==
    /\ pc = "done"
    /\ has_header
    /\ matrix = <<<<Str1("a"), Str1("A"), <<"a", "_", "1">>>>>>
    /\ aligned.headers = <<Str1("a"), <<"A", "_", "1">>, <<"a", "_", "1", "_", "1">>>>

\* The value of a float divided by 100.
Percent(f) == IF Raised(f) THEN f ELSE FloatVal(f.m, f.e + 2)

\* C9: a cell of its column's type is parsed by that type: currency to the
\* number left without currency symbol and thousands separators, percentage
\* to its number divided by 100, number to an int without a decimal point and
\* to a float with one, date and text to the unchanged string; the spec's
\* example column is currency and parses to 1200.0, 45.5, 0.0 without error.
C9_CellsParsedByType ==
    (pc = "done" /\ values /= <<>>) =>
        LET type == aligned.column_types[1]
        IN  /\ \A r \in 1..Len(values) :
                   LET cell == Strip(values[r])
                       parsed == aligned.rows[r][1]
                   IN  (cell /= <<>> /\ CellClass(cell) = type) =>
                           CASE type = "currency" ->
                                    parsed = PyFloat(Without(cell,
                                                 CurrencySymbols \cup {","} \cup Spaces))
                             [] type = "percentage" ->
                                    parsed = Percent(PyFloat(Without(cell, {"%"} \cup Spaces)))
                             [] type = "number" ->
                                    parsed.t = IF \E k \in 1..Len(cell) : cell[k] = "."
                                               THEN "float" ELSE "int"
                             [] OTHER -> parsed = StrVal(cell)
            /\ values = <<<<"$", "1", ",", "2", "0", "0", ".", "0", "0">>,
                          <<"$", "4", "5", ".", "5", "0">>,
                          <<"$", "0", ".", "0", "0">>>>
                   => /\ aligned.column_types = <<"currency">>
                      /\ aligned.rows = <<<<FloatVal(1200, 0)>>, <<FloatVal(455, 1)>>,
                                          <<FloatVal(0, 0)>>>>
                      /\ aligned.validation_errors = <<>>

----------------------------------------------------------------------------
(* Key-value extraction (structuring.py).                                  *)

TextLinesOf(text) == SplitOn(text, "\n")

\* The entry a line produces: the match of the first of the three patterns,
\* tried in order, that matches the trimmed line.
LineEntry(raw_line) ==
    LET line == Strip(raw_line)
    IN  IF MatchColon(line).ok THEN MatchColon(line)
        ELSE IF MatchDash(line).ok THEN MatchDash(line)
        ELSE IF MatchSpaces(line).ok THEN MatchSpaces(line)
        ELSE NoMatch

\* The trimmed label, lower-cased, every space replaced by an underscore.
EntryKey(label) ==
    LET t == Strip(label)
    IN  [i \in 1..Len(t) |-> IF t[i] = " " THEN "_" ELSE LowerChar(t[i])]

\* C10: each line on its own gives the entry of the first pattern that
\* matches it, under the key made from its label; a line that no pattern
\* matches gives none (of two lines with one key the later one is kept); the
\* line "Invoice Number:   INV-2024-001" gives invoice_number, a string.
C10_FirstPatternEntry ==
    (pc = "done" /\ document.raised = "") =>
        LET lines == TextLinesOf(full_text)
            entries == {k \in 1..Len(lines) : LineEntry(lines[k]).ok}
            kv == document.key_values
        IN  /\ DOMAIN kv = {EntryKey(LineEntry(lines[k]).label) : k \in entries}
            /\ \A k \in entries :
                   (\A m \in entries :
                        m > k => EntryKey(LineEntry(lines[m]).label)
                                     /= EntryKey(LineEntry(lines[k]).label))
                       => kv[EntryKey(LineEntry(lines[k]).label)]
                              = CoerceValue(Strip(LineEntry(lines[k]).value))
            /\ (\E k \in 1..Len(lines) : lines[k] = <<"I", "n", "v", "o", "i", "c", "e", " ", "N", "u", "m", "b", "e", "r", ":", " ", " ", " ", "I", "N", "V", "-", "2", "0", "2", "4", "-", "0", "0", "1">>)
                   => /\ <<"i", "n", "v", "o", "i", "c", "e", "_", "n", "u", "m", "b", "e", "r">> \in DOMAIN kv
                      /\ kv[<<"i", "n", "v", "o", "i", "c", "e", "_", "n", "u", "m", "b", "e", "r">>]
                             = StrVal(<<"I", "N", "V", "-", "2", "0", "2", "4", "-", "0", "0", "1">>)

\* A line that the first and the third pattern match, and a line that none
\* matches: one entry, under the key of the first pattern's label.
C10_Witness ==
    /\ pc = "done"
    /\ TextLinesOf(full_text) = <<<<"a", "b", " ", " ", "c", ":", " ", "d">>, <<"f", "o", "o">>>>
    /\ MatchSpaces(<<"a", "b", " ", " ", "c", ":", " ", "d">>).ok
    /\ DOMAIN document.key_values = {<<"a", "b", "_", "_", "c">>}
    /\ document.key_values[<<"a", "b", "_", "_", "c">>] = StrVal(Str1("d"))

\* The value the coercion rules give: a boolean word, compared
\* case-insensitively, is a boolean; otherwise what is left without thousands
\* separators and currency symbols is an int or a float if it parses as one;
\* otherwise the value is the unchanged string.
TrueWords == {<<"y", "e", "s">>, <<"t", "r", "u", "e">>, <<"y">>}
FalseWords == {<<"n", "o">>, <<"f", "a", "l", "s", "e">>, <<"n">>}
Coerced(value) ==
    LET clean == Without(value, {",", "$", "<euro>", "<pound>"})
    IN  IF Lower(value) \in TrueWords THEN BoolVal(TRUE)
        ELSE IF Lower(value) \in FalseWords THEN BoolVal(FALSE)
        ELSE IF ~Raised(PyInt(clean)) THEN PyInt(clean)
        ELSE IF ~Raised(PyFloat(clean)) THEN PyFloat(clean)
        ELSE StrVal(value)

----------------------------------------------------------------------------
(* Reading order of tokens: region text (structuring.py) and the spatial   *)
(* text organizer (ocr.py).                                                *)

\* The positions, in a token list swept in (y, x) order, that start a line:
\* the first, and every one whose y is more than 20 away from the y of the
\* token that started the line before it.
LineStarts(swept) ==
    CHOOSE B \in SUBSET (1..Len(swept)) :
        /\ Len(swept) >= 1 => 1 \in B
        /\ \A i \in 2..Len(swept) :
               LET opened == CHOOSE b \in B : b < i /\ \A c \in B : c < i => c <= b
               IN  i \in B <=> Abs(swept[i].bbox[2] - swept[opened].bbox[2]) > 20

\* The line that starts at position b: the tokens up to the next start.
LineFrom(swept, B, b) ==
    LET last == IF \E c \in B : c > b
                THEN (CHOOSE c \in B : c > b /\ \A d \in B : d > b => c <= d) - 1
                ELSE Len(swept)
    IN  SubSeq(swept, b, last)

\* The lines of a token list, top to bottom.
RECURSIVE LinesFrom(_, _, _)
LinesFrom(swept, B, b) ==
    IF b > Len(swept) THEN <<>>
    ELSE <<LineFrom(swept, B, b)>> \o LinesFrom(swept, B, b + Len(LineFrom(swept, B, b)))
ReadingLines(tokens) == LinesFrom(SortedByYX(tokens), LineStarts(SortedByYX(tokens)), 1)

\* The texts of the tokens of the lines, each line left to right, in one
\* sequence.
RECURSIVE TextsInOrder(_)
TextsInOrder(lines) ==
    IF lines = <<>> THEN <<>>
    ELSE [i \in 1..Len(lines[1]) |-> SortedLine(lines[1])[i].text]
             \o TextsInOrder(Tail(lines))

\* The centre (x + w/2, y + h/2) of the token lies in the box.
CentreInside(token, box) ==
    /\ 2 * box[1] <= 2 * token.bbox[1] + token.bbox[3]
    /\ 2 * token.bbox[1] + token.bbox[3] <= 2 * (box[1] + box[3])
    /\ 2 * box[2] <= 2 * token.bbox[2] + token.bbox[4]
    /\ 2 * token.bbox[2] + token.bbox[4] <= 2 * (box[2] + box[4])
TokensInside(tokens, box) == SelectSeq(tokens, LAMBDA t : CentreInside(t, box))

\* C12: the text of a region's block is the texts of exactly the tokens
\* whose centre lies in the region, joined in reading order (lines top to
\* bottom, left to right within a line), whatever the order of the tokens in
\* the input list.
C12_RegionTextInReadingOrder ==
    (pc = "done" /\ document.raised = "" /\ regions /= <<>>) =>
        \A k \in 1..Len(regions) :
            regions[k].type = "paragraph" =>
                document.blocks[k].content
                    = StrVal(Join(TextsInOrder(ReadingLines(
                          TokensInside(ocr_blocks, regions[k].bbox))), <<" ">>))

----------------------------------------------------------------------------
(* Tables, lists, titles and metadata of the structured document.         *)

\* The area the table's box shares with the region's.
SharedArea(t, r) ==
    Max(0, Min(r[1] + r[3], t[1] + t[3]) - Max(r[1], t[1]))
        * Max(0, Min(r[2] + r[4], t[2] + t[4]) - Max(r[2], t[2]))

\* The tables, by position in the table list, more than half of whose own
\* area lies in the region.
Qualifying(tables, r) ==
    {k \in 1..Len(tables) :
        /\ tables[k].bbox[3] * tables[k].bbox[4] > 0
        /\ 2 * SharedArea(tables[k].bbox, r) > tables[k].bbox[3] * tables[k].bbox[4]}

\* C13: the content of a table region's block is the matrix of the first
\* table of the list whose intersection with the region is more than half
\* the table's area; with no such table, or no table result, it is the
\* region's joined token text.
C13_FirstOverlappingTable ==
    (pc = "done" /\ document.raised = "") =>
        \A k \in 1..Len(regions) :
            regions[k].type = "table" =>
                LET q == Qualifying(table_result.tables, regions[k].bbox)
                IN  document.blocks[k].content
                        = IF table_result.given /\ q /= {}
                          THEN MatrixVal(table_result.tables[
                                   CHOOSE i \in q : \A j \in q : i <= j].matrix)
                          ELSE StrVal(GetTextInRegion(ocr_blocks, regions[k].bbox))

\* A table with exactly half its area in the region, then one wholly inside:
\* the block holds the matrix of the second.
C13_Witness ==
    /\ pc = "done"
    /\ Len(regions) >= 1 /\ regions[1].type = "table"
    /\ table_result.given
    /\ Len(table_result.tables) = 2
    /\ table_result.tables[1].bbox = <<2, 0, 4, 4>>
    /\ table_result.tables[2].bbox = <<0, 0, 2, 4>>
    /\ document.blocks[1].content = MatrixVal(<<<<<<"0">>, <<"2">>>>>>)

\* The line begins with a bullet or with a number and a full stop, and
\* whitespace follows the marker.
BulletChars == {"-", "*", "<bullet>", "<wbullet>", "<square>"}
BeginsWithMarker(text) ==
    \/ Len(text) >= 2 /\ text[1] \in BulletChars /\ text[2] \in Spaces
    \/ LET d == SkipSet(text, 1, Digits)
       IN  /\ d > 1 /\ d + 1 <= Len(text)
           /\ text[d] = "." /\ text[d + 1] \in Spaces

\* The class of a line by the first rule that applies.
LineClass(text) ==
    IF LineEntry(text).ok THEN "key_value"
    ELSE IF BeginsWithMarker(text) THEN "list_item"
    ELSE IF IsUpper(text) /\ Len(text) < 50 THEN "heading"
    ELSE "paragraph"

\* C14: in the fallback without regions a line is a key-value line if one of
\* the three patterns matches it, else a list item if it begins with a
\* bullet or number marker, else a heading if it is all upper-case and
\* shorter than 50 characters, else a paragraph.
C14_LineClassifiedInOrder ==
    (pc = "done" /\ document.raised = "" /\ regions = <<>> /\ ocr_blocks /= <<>>) =>
        /\ Len(document.blocks) = 1
        /\ document.blocks[1].type
               = LineClass(Strip(Join([i \in 1..Len(ocr_blocks) |-> ocr_blocks[i].text],
                                      <<" ">>)))

\* The line without its leading bullet, or number and full stop, and the
\* whitespace after it; a line without a marker is unchanged.
Unmarked(line) ==
    LET d == SkipSet(line, 1, Digits)
    IN  IF Len(line) >= 1 /\ line[1] \in BulletChars
        THEN Slice(line, SkipSet(line, 2, Spaces), Len(line) + 1)
        ELSE IF d > 1 /\ d <= Len(line) /\ line[d] = "."
        THEN Slice(line, SkipSet(line, d + 1, Spaces), Len(line) + 1)
        ELSE line

\* The non-blank lines of the text, trimmed, each without its marker.
ListItems(text) ==
    LET lines == SelectSeq(TextLinesOf(text), LAMBDA l : Strip(l) /= <<>>)
    IN  [i \in 1..Len(lines) |-> Unmarked(Strip(lines[i]))]

\* C15: the content of a list region's block is the list of the non-blank
\* lines of the region text, each without its leading bullet or numbering
\* marker and the whitespace after it, the rest of the line unchanged.
C15_ListItemsWithoutMarkers ==
    (pc = "done" /\ document.raised = "") =>
        \A k \in 1..Len(regions) :
            regions[k].type = "list" =>
                document.blocks[k].content
                    = ListVal(ListItems(GetTextInRegion(ocr_blocks, regions[k].bbox)))

\* Block k is the first block of the given type.
FirstOfType(blocks, k, type) ==
    /\ blocks[k].type = type
    /\ \A m \in 1..(k - 1) : blocks[m].type /= type
HasType(blocks, type) == \E k \in 1..Len(blocks) : blocks[k].type = type

\* C16: the title of the document is the content of its first title block;
\* without a title block, the content of its first heading block; without
\* either, none.
C16_TitleFromFirstTitleOrHeading ==
    (pc = "done" /\ document.raised = "") =>
        /\ \A k \in 1..Len(document.blocks) :
              FirstOfType(document.blocks, k, "title")
                  => document.title = document.blocks[k].content
        /\ \A k \in 1..Len(document.blocks) :
              (~HasType(document.blocks, "title")
                   /\ FirstOfType(document.blocks, k, "heading"))
                  => document.title = document.blocks[k].content
        /\ (~HasType(document.blocks, "title") /\ ~HasType(document.blocks, "heading"))
              => document.title = NoneVal

\* Two title blocks of different content, after a block that is no title.
C16_Witness ==
    /\ pc = "done"
    /\ document.raised = ""
    /\ Len(document.blocks) = 2
    /\ document.blocks[1].type = "title"
    /\ document.blocks[2].type = "title"
    /\ document.blocks[1].content /= document.blocks[2].content
    /\ document.title = document.blocks[1].content

\* C17: in the returned document num_regions is the number of input regions,
\* num_tables the number of input tables (0 without a table result) and the
\* length of the document's tables, and num_key_values the number of entries
\* of the document's key_values.
C17_MetadataCounts ==
    (pc = "done" /\ document.raised = "") =>
        /\ document.metadata.num_regions = Len(regions)
        /\ document.metadata.num_tables
              = (IF table_result.given THEN Len(table_result.tables) ELSE 0)
        /\ document.metadata.num_tables = Len(document.tables)
        /\ document.metadata.num_key_values = Cardinality(DOMAIN document.key_values)

\* Two regions, neither a table region, one table and one key in two lines.
C17_Witness ==
    /\ pc = "done"
    /\ document.raised = ""
    /\ Len(regions) = 2
    /\ \A k \in 1..2 : regions[k].type /= "table"
    /\ table_result.given
    /\ Len(table_result.tables) = 1
    /\ full_text = <<"k", ":", " ", "v", "\n", "k", ":", " ", "v">>
    /\ document.metadata = [num_regions |-> 2, num_tables |-> 1, num_key_values |-> 1]

----------------------------------------------------------------------------
(* The spatial text organizer.                                             *)

\* How often the token occurs in the list, and in the lines together.
Occurrences(tokens, t) == Cardinality({i \in 1..Len(tokens) : tokens[i] = t})
RECURSIVE OccurrencesInLines(_, _)
OccurrencesInLines(lines, t) ==
    IF lines = <<>> THEN 0
    ELSE Occurrences(lines[1], t) + OccurrencesInLines(Tail(lines), t)

\* The texts of the tokens, in the given order, with single spaces between.
RECURSIVE SpacedTexts(_)
SpacedTexts(tokens) ==
    IF tokens = <<>> THEN <<>>
    ELSE IF Len(tokens) = 1 THEN tokens[1].text
    ELSE tokens[1].text \o <<" ">> \o SpacedTexts(Tail(tokens))

\* C18: the organizer sweeps the tokens in (y, x) order and starts a line
\* exactly when a token's y is more than 20 away from the y of the token that
\* opened the current line; every token is in exactly one line, within 20 of
\* the line's first token, no line is empty, and the text of a line is its
\* tokens' texts from left to right with single spaces, the lines separated
\* by line breaks.
C18_LinesByOpeningY ==
    (pc = "organized" /\ ocr_blocks /= <<>>) =>
        LET lines == OrganizeLines(ocr_blocks)
        IN  /\ lines = ReadingLines(ocr_blocks)
            /\ \A i \in 1..Len(ocr_blocks) :
                  OccurrencesInLines(lines, ocr_blocks[i])
                      = Occurrences(ocr_blocks, ocr_blocks[i])
            /\ \A l \in 1..Len(lines) :
                  /\ lines[l] /= <<>>
                  /\ \A i \in 1..Len(lines[l]) :
                        Abs(lines[l][i].bbox[2] - lines[l][1].bbox[2]) <= 20
                  /\ \A i \in 1..(Len(SortedLine(lines[l])) - 1) :
                        SortedLine(lines[l])[i].bbox[1] <= SortedLine(lines[l])[i + 1].bbox[1]
                  /\ \A i \in 1..Len(lines[l]) :
                        Occurrences(SortedLine(lines[l]), lines[l][i])
                            = Occurrences(lines[l], lines[l][i])
            /\ full_text = Join([l \in 1..Len(lines) |-> SpacedTexts(SortedLine(lines[l]))],
                                <<"\n">>)

\* Tokens at y 15, 30 and 0, the one at 30 left of the one at 15: the line
\* opened at 0 takes 15, and 30, within 20 of 15 but not of 0, opens a line.
C18_Witness ==
    /\ pc = "organized"
    /\ ocr_blocks = <<[text |-> <<"a">>, bbox |-> <<10, 15, 5, 5>>],
                      [text |-> <<"B">>, bbox |-> <<0, 30, 5, 5>>],
                      [text |-> <<"B">>, bbox |-> <<0, 0, 5, 5>>]>>
    /\ full_text = <<"B", " ", "a", "\n", "B">>

----------------------------------------------------------------------------
(* Heuristic grid reconstruction (tables.py).                              *)

\* The distinct y of the horizontal lines and the distinct x of the vertical
\* lines, and the k-th smallest (k from 0) of a set of positions.
LineYs == {horizontal_lines[i][2] : i \in 1..Len(horizontal_lines)}
LineXs == {vertical_lines[i][1] : i \in 1..Len(vertical_lines)}
Kth(S, k) == CHOOSE x \in S : Cardinality({y \in S : y < x}) = k

\* The cell is the grid cell of row r and column c.
IsGridCell(cell, r, c) ==
    /\ cell.row = r
    /\ cell.col = c
    /\ cell.row_span = 1
    /\ cell.col_span = 1
    /\ cell.bbox = <<Kth(LineXs, c), Kth(LineYs, r),
                     Kth(LineXs, c + 1) - Kth(LineXs, c),
                     Kth(LineYs, r + 1) - Kth(LineYs, r)>>
    /\ cell.is_header = (r = 0)

\* C19: with H distinct y of horizontal lines and V distinct x of vertical
\* lines, nothing is returned when H < 2 or V < 2; otherwise the table has
\* H-1 rows and V-1 columns and exactly one cell for each row and column, of
\* spans 1, with the box between consecutive positions, a header cell
\* exactly in row 0.
C19_GridOfCells ==
    pc = "extracted" =>
        IF Cardinality(LineYs) < 2 \/ Cardinality(LineXs) < 2
        THEN found_tables = <<>>
        ELSE /\ Len(found_tables) = 1
             /\ found_tables[1].num_rows = Cardinality(LineYs) - 1
             /\ found_tables[1].num_cols = Cardinality(LineXs) - 1
             /\ Len(found_tables[1].cells)
                   = (Cardinality(LineYs) - 1) * (Cardinality(LineXs) - 1)
             /\ \A r \in 0..(Cardinality(LineYs) - 2), c \in 0..(Cardinality(LineXs) - 2) :
                   /\ Cardinality({i \in 1..Len(found_tables[1].cells) :
                                      /\ found_tables[1].cells[i].row = r
                                      /\ found_tables[1].cells[i].col = c}) = 1
                   /\ \A i \in 1..Len(found_tables[1].cells) :
                         (found_tables[1].cells[i].row = r /\ found_tables[1].cells[i].col = c)
                             => IsGridCell(found_tables[1].cells[i], r, c)

\* A horizontal line found twice, the lines out of order: two distinct y and
\* three distinct x give one row of two cells.
C19_Witness ==
    /\ pc = "extracted"
    /\ horizontal_lines = <<<<0, 5, 10, 1>>, <<0, 0, 10, 1>>, <<0, 5, 10, 1>>>>
    /\ vertical_lines = <<<<10, 0, 1, 10>>, <<0, 0, 1, 10>>, <<4, 0, 1, 10>>>>
    /\ Len(found_tables) = 1
    /\ found_tables[1].num_rows = 1
    /\ found_tables[1].num_cols = 2
    /\ found_tables[1].cells[2].bbox = <<4, 0, 6, 5>>

----------------------------------------------------------------------------
(* Error corrector (error_correction.py).                                  *)

\* The table entry for the word, in the word's case pattern: all upper case,
\* a leading capital, or lower case.
Mirrored(word) ==
    IF word = Upper(word) THEN Upper(CorrectionOf(Lower(word)))
    ELSE IF word[1] \in Uppers
    THEN <<UpperChar(CorrectionOf(Lower(word))[1])>> \o Tail(CorrectionOf(Lower(word)))
    ELSE CorrectionOf(Lower(word))

\* The word of the token is in the misrecognition table.
Misrecognised(token) == Lower(CoreOf(token)) \in CorrectionKeys
MirroredToken(token) == PrefixOf(token) \o Mirrored(CoreOf(token)) \o SuffixOf(token)
MirroredRecord(token) ==
    [original |-> CoreOf(token), corrected |-> Mirrored(CoreOf(token)),
     type |-> "word_correction"]

\* C20: a word whose lower-case form is in the misrecognition table is
\* replaced by the table entry in the word's case pattern (all upper case,
\* leading capital, else lower case) and recorded with type word_correction;
\* "teh Total" gives "the Total" and exactly one record, of that type.
C20_MisrecognitionsReplaced ==
    pc = "corrected" =>
        /\ SelectSeq(correction.corrections, LAMBDA r : r.type = "word_correction")
              = [k \in 1..Len(SelectSeq(SplitWords(input_text), Misrecognised)) |->
                    MirroredRecord(SelectSeq(SplitWords(input_text), Misrecognised)[k])]
        /\ \E o \in LoopOutcomes(SplitWords(input_text)) :
              /\ correction.corrected_text = FixSpacing(Join(o.pieces, <<" ">>))
              /\ correction.corrections = o.corrections
              /\ \A k \in 1..Len(o.pieces) :
                    Misrecognised(SplitWords(input_text)[k])
                        => o.pieces[k] = MirroredToken(SplitWords(input_text)[k])
        /\ input_text = <<"t", "e", "h", " ", "T", "o", "t", "a", "l">>
              => correction = [corrected_text |-> <<"t", "h", "e", " ", "T", "o", "t", "a", "l">>,
                               corrections |-> <<[original |-> <<"t", "e", "h">>, corrected |-> <<"t", "h", "e">>,
                                                  type |-> "word_correction"]>>]

\* "teh Total" corrected to "the Total", with one record.
C20_Witness ==
    /\ pc = "corrected"
    /\ input_text = <<"t", "e", "h", " ", "T", "o", "t", "a", "l">>
    /\ correction.corrected_text = <<"t", "h", "e", " ", "T", "o", "t", "a", "l">>
    /\ Len(correction.corrections) = 1
    /\ correction.corrections[1].type = "word_correction"

\* The indices of K in increasing order.
Ascending(K) == SortedSet(K)

\* The tokens put together again without spaces, token K[j] with its word
\* replaced by the corrected word of record j.
RECURSIVE Reassembled(_, _, _, _)
Reassembled(tokens, K, records, k) ==
    IF k > Len(tokens) THEN <<>>
    ELSE (IF k \in K
          THEN PrefixOf(tokens[k])
                   \o records[CHOOSE j \in 1..Len(records) : Ascending(K)[j] = k].corrected
                   \o SuffixOf(tokens[k])
          ELSE tokens[k])
             \o Reassembled(tokens, K, records, k + 1)

\* The records are those of the tokens K, in order, each with the token's
\* word as original and another word as corrected, and the text is the tokens
\* with these words replaced, the punctuation around them kept.
RecordsOfTokens(str, result, K) ==
    /\ Cardinality(K) = Len(result.corrections)
    /\ \A j \in 1..Len(result.corrections) :
          /\ result.corrections[j].original = CoreOf(SplitWords(str)[Ascending(K)[j]])
          /\ result.corrections[j].corrected /= result.corrections[j].original
    /\ Without(result.corrected_text, {" "})
          = Reassembled(SplitWords(str), K, result.corrections, 1)

\* C21: correct() returns one record for each token whose word was changed,
\* in token order and with original different from corrected, none for a
\* token whose word is unchanged, and the token's leading and trailing
\* punctuation stays around the corrected word.
C21_OneRecordPerChangedWord ==
    pc \in {"corrected", "corrected again"} =>
        \E K \in SUBSET (1..Len(SplitWords(input_text))) :
            RecordsOfTokens(input_text, correction, K)

\* A misrecognition between brackets after an unchanged word: one record,
\* the brackets kept.
C21_Witness ==
    /\ pc = "corrected"
    /\ input_text = <<"x", " ", "(", "h", "t", "e", ")">>
    /\ correction.corrected_text = <<"x", " ", "(", "t", "h", "e", ")">>
    /\ Len(correction.corrections) = 1
    /\ correction.corrections[1].original = <<"h", "t", "e">>

\* C30: correct() applied to the text it returned returns that text again,
\* with no correction record.
C30_CorrectIdempotent ==
    pc = "corrected again" =>
        recorrection = [corrected_text |-> correction.corrected_text, corrections |-> <<>>]

\* The numeric substrings of the text: the maximal runs of digits, commas and
\* points with a digit among them, as pairs of their first and last position.
NumericRuns(str) ==
    {run \in (1..Len(str)) \X (1..Len(str)) :
        /\ run[1] <= run[2]
        /\ \E k \in run[1]..run[2] : str[k] \in Digits
        /\ \A k \in run[1]..run[2] : str[k] \in Digits \cup {",", "."}
        /\ run[1] = 1 \/ str[run[1] - 1] \notin Digits \cup {",", "."}
        /\ run[2] = Len(str) \/ str[run[2] + 1] \notin Digits \cup {",", "."}}

\* In the run a comma after a digit is followed by one or two digits only.
ShortGroup(str, run) ==
    \E p \in run[1]..(run[2] - 2) :
        /\ str[p] \in Digits
        /\ str[p + 1] = ","
        /\ SkipSet(str, p + 2, Digits) - (p + 2) \in {1, 2}
\* The run holds more than one point.
SeveralPoints(str, run) ==
    Cardinality({k \in run[1]..run[2] : str[k] = "."}) > 1
\* An issue of the kind is reported for a match that starts in the run, or
\* before it with only a sign and blanks in between.
Reported(run, kind) ==
    \E k \in 1..Len(issues) :
        /\ issues[k].issue = kind
        /\ issues[k].position + 1 <= run[2]
        /\ \A m \in (issues[k].position + 1)..(run[1] - 1) :
              input_text[m] \notin Digits \cup {",", "."}

\* C22: validate_numbers reports suspicious_comma_placement for every
\* numeric substring in which a comma is followed by one or two digits only,
\* and multiple_decimal_points for every numeric substring with more than
\* one decimal point.
C22_NumberIssuesReported ==
    pc = "validated" =>
        \A run \in NumericRuns(input_text) :
            /\ ShortGroup(input_text, run) => Reported(run, "suspicious_comma_placement")
            /\ SeveralPoints(input_text, run) => Reported(run, "multiple_decimal_points")

----------------------------------------------------------------------------
(* The fallback's lines against the organizer's (structuring.py, ocr.py).  *)

\* The line texts of _organize_text for the tokens.
OrganizedTexts(tokens) ==
    [l \in 1..Len(OrganizeLines(tokens)) |-> LineText(OrganizeLines(tokens)[l])]

\* C28: for the tokens of a page without regions, the blocks of
\* _blocks_from_ocr carry, line for line, the line texts of _organize_text
\* for the same tokens: the same tokens in each line, from left to right.
C28_FallbackLinesAsOrganized ==
    (pc = "done" /\ regions = <<>> /\ ocr_blocks /= <<>>)
        => /\ document.raised = ""
           /\ [k \in 1..Len(document.blocks) |-> document.blocks[k].content]
                  = [l \in 1..Len(OrganizedTexts(ocr_blocks)) |->
                        StrVal(OrganizedTexts(ocr_blocks)[l])]

----------------------------------------------------------------------------
(* Table aligner (table_alignment.py): column types and blank cells.       *)

\* C26: for every non-empty matrix align() returns one column type per
\* header, len(column_types) = len(headers), also for a matrix that is a
\* header row alone with has_header true.
C26_OneTypePerHeader ==
    (pc = "done" /\ matrix /= <<>>)
        => Len(aligned.column_types) = Len(aligned.headers)

\* C27: in the rows align() returns, every cell whose stripped input text
\* is empty, a cell added by the padding included, is None whatever the type
\* of its column, and no validation error names it.
C27_BlankCellsAreNone ==
    pc = "done" =>
        \A r \in 1..Len(aligned.rows) : \A c \in 1..Len(aligned.rows[r]) :
            InputCell(r, c) = <<>>
                => /\ aligned.rows[r][c] = NoneVal
                   /\ ErrorsAt(r, c) = {}

\* A row of a blank cell and a missing one under a row of a currency and a
\* percentage cell: both come back as None, in typed columns.
C27_Witness ==
    /\ pc = "done"
    /\ ~has_header
    /\ matrix = <<<<<<"$", "1">>, <<"5", "%">>>>, <<<<" ">>>>>>
    /\ aligned.column_types = <<"currency", "percentage">>
    /\ aligned.rows[2] = <<NoneVal, NoneVal>>
    /\ aligned.validation_errors = <<>>

----------------------------------------------------------------------------
(* Image preprocessor (preprocessing.py).                                  *)

\* C23: _resize_if_needed is a no-op for every image whose height and width
\* are both at most max_size: it returns the input image, with the same
\* dimensions and the same pixel buffer.
C23_ResizeNoOpWithinLimit ==
    (pc = "resized" /\ image.height <= max_size /\ image.width <= max_size)
        => resized = image

\* An image whose larger side is exactly max_size came back as it was.
C23_Witness ==
    /\ pc = "resized"
    /\ Max(image.height, image.width) = max_size
    /\ image.height # image.width
    /\ resized = image

\* C24: for every image with width >= 1 and height >= 1 whose larger
\* dimension exceeds max_size, the resize does not fail, and the new
\* dimensions are at least 1 and at most max_size.
C24_ResizeTargetWithinLimit ==
    (pc = "resized" /\ image.height >= 1 /\ image.width >= 1
     /\ Max(image.height, image.width) > max_size)
        => IF "raised" \in DOMAIN resized THEN FALSE
           ELSE /\ Max(resized.height, resized.width) <= max_size
                /\ resized.height >= 1
                /\ resized.width >= 1

\* C25: when an angle is measured, _deskew rotates the image if and only if
\* the normalized angle a has 0.5 < |a| < 10 degrees; for |a| <= 0.5 and for
\* |a| >= 10 it returns the input image, and deskewing again an image whose
\* angle is within |a| <= 0.5 returns it once more.
C25_DeskewOnlyInBand ==
    (pc \in {"deskewed", "deskewed again"} /\ measured.foreground >= MinForeground)
        => /\ (deskewed # image)
                <=> (/\ HalfDegree < Abs(NormalizeAngle(measured.angle))
                     /\ Abs(NormalizeAngle(measured.angle)) < TenDegrees)
           /\ (pc = "deskewed again"
               /\ Abs(NormalizeAngle(measured.angle)) <= HalfDegree)
                => redeskewed = image

\* C29: for four distinct points, _order_corners returns a permutation of
\* them: every input point is at exactly one of the four positions.
C29_OrderedIsPermutation ==
    pc = "corners ordered"
        => \A i \in 1..4 : Cardinality({k \in 1..4 : ordered[k] = corners[i]}) = 1

====
